---- MODULE Spec2Model ----
(***************************************************************************)
(* Verification model of the agent coordination core of personal-agent-os: *)
(* the state manager, the verifier, the executor, the planner and the      *)
(* submission surfaces, the message bus and the reminder monitor.          *)
(*                                                                         *)
(* Every subsystem has its own specification over the shared variables;    *)
(* the variables of the other subsystems stay at their initial values.     *)
(***************************************************************************)
EXTENDS Integers, Sequences, FiniteSets, TLC

VARIABLES
    \* ---- core/state.py : StateManager
    active_tasks,        \* system_state.active_tasks (a list, duplicates possible)
    execution_states,    \* _execution_states: task id -> trace, or NoState
    sm_calls,            \* number of state manager calls made (bounds the run)
    \* ---- core/verifier.py : VerifierAgent._verify_execution
    vf_trace,            \* the execution_trace handed to the verifier
    vf_result,           \* the VerificationResult, or NoResult before the call
    \* ---- coordination/bus.py as the agents see it
    published,           \* the messages published on the bus, in publish order
    \* ---- core/executor.py : ExecutorAgent.handle_message
    ex,                  \* the executor's position in the request it is handling
    tool_invocations,    \* the calls of tool.validate_and_execute made so far
    \* ---- daemon/reminder_monitor.py and tools/reminders.py
    now,                 \* the wall clock
    rem_file,            \* reminders.json: readable or not, and its entries
    rem_writer,          \* who wrote reminders.json last
    mon,                 \* the monitor process: position, loaded list, tick data
    sent_notifications,  \* ReminderMonitor.sent_notifications
    notified,            \* notifications sent per reminder by this process
    rs,                  \* a reminder_set call running in another process
    restarts,            \* restarts of the monitor process so far
    \* ---- coordination/bus.py : MessageBus
    messages,            \* the Message objects created so far, by id
    message_history,     \* _message_history: message ids, oldest first
    subscribers,         \* _subscribers: message type -> set of handlers
    pending_responses,   \* keys of _pending_responses
    futures,             \* the future created by request_response, by key
    callers,             \* the coroutines calling publish / request_response
    running,             \* the coroutine the event loop is running, or Idle
    delivered,           \* per handler, the messages it was invoked with, in order
    got,                 \* the last get_history call: arguments and result
    closed,              \* 0, or the id the first message published after
                         \* the last shutdown gets, while nothing has
                         \* subscribed since
    lock,                \* bus.py:43 _lock: Unlocked, or the coroutine holding it
    \* ---- the submission surfaces and core/planner.py
    pl,                  \* the submission in progress
    \* ---- core/planning.py : PlanValidator
    validator,           \* a PlanValidator: its plan and what validate() left
    \* ---- core/risk.py : RiskEngine
    engine,              \* a RiskEngine: its mode and its last evaluations
    \* ---- api/main.py : get_reminders
    dashboard,           \* what the last GET /reminders read from the file
    \* ---- tools/base.py : Tool.validate_and_execute
    tool_calls,          \* the validate_and_execute calls made, with their outcome
    \* ---- core/memory.py : ContextMemoryEngine
    memory_db,           \* memory.db: the two tables, and what the last read returned
    \* ---- api/main.py : run_task on the process-wide bus
    api                  \* the HTTP surface: agents subscribed so far, and the request in hand

smVars == <<active_tasks, execution_states, sm_calls>>
vfVars == <<vf_trace, vf_result>>
exVars == <<published, ex, tool_invocations>>
rmVars == <<now, rem_file, rem_writer, mon, sent_notifications, notified, rs,
            restarts>>
busVars == <<messages, message_history, subscribers, pending_responses,
             futures, callers, running, delivered, got,
             closed, lock>>
coreVars == <<validator, engine, dashboard, tool_calls, memory_db, api>>
plVars == <<pl, coreVars>>
vars == <<active_tasks, execution_states, sm_calls, vf_trace, vf_result,
          published, ex, tool_invocations,
          now, rem_file, rem_writer, mon, sent_notifications, notified, rs,
          restarts, messages, message_history, subscribers,
          pending_responses, futures, callers, running, delivered, got,
          closed, lock, pl, validator, engine,
          dashboard, tool_calls, memory_db, api>>

(***************************************************************************)
(* Bounds                                                                  *)
(***************************************************************************)
NumTasks == 3
MaxCalls == 4
MaxSteps == 2
MaxReminders == 2
MaxTime == 2
MaxRestarts == 1
MaxMsgs == 3
NumHandlers == 2
MaxHistory == 2
MaxLimit == 2
MaxPlanSteps == 3
MaxDeps == 2
MaxRiskSteps == 3
MaxToolCalls == 2
MaxMemories == 2
MaxApiTasks == 2

TaskIds == 1..NumTasks
StepIds == 1..MaxSteps

Range(s) == {s[i] : i \in 1..Len(s)}

SeqsUpTo(S, n) == UNION {[1..k -> S] : k \in 0..n}

(***************************************************************************)
(* core/state.py                                                           *)
(***************************************************************************)
NoState == [status |-> "none"]

\* ExecutionTrace(): status defaults to "pending", the lists are empty
NewTrace == [status |-> "pending", steps_executed |-> <<>>, errors |-> <<>>]

SmInit ==
    /\ active_tasks = <<>>
    /\ execution_states = [t \in TaskIds |-> NoState]
    /\ sm_calls = 0

\* StateManager.register_task: a fresh ExecutionState replaces any earlier one
\* and the id is appended to the active list
RegisterStates(es, t) == [es EXCEPT ![t] = NewTrace]
RegisterActive(at, t) == Append(at, t)

\* StateManager.mark_task_complete: only the trace of a known task changes;
\* the active list is not touched
CompleteStates(es, t) ==
    IF es[t] # NoState THEN [es EXCEPT ![t].status = "completed"] ELSE es
CompleteActive(at, t) == at

\* StateManager.get_active_tasks
get_active_tasks == Range(active_tasks)

RegisterTask(t) ==
    /\ sm_calls < MaxCalls
    /\ execution_states' = RegisterStates(execution_states, t)
    /\ active_tasks' = RegisterActive(active_tasks, t)
    /\ sm_calls' = sm_calls + 1
    /\ UNCHANGED <<vfVars, exVars, rmVars, busVars, plVars>>

MarkTaskComplete(t) ==
    /\ sm_calls < MaxCalls
    /\ execution_states' = CompleteStates(execution_states, t)
    /\ active_tasks' = CompleteActive(active_tasks, t)
    /\ sm_calls' = sm_calls + 1
    /\ UNCHANGED <<vfVars, exVars, rmVars, busVars, plVars>>

(***************************************************************************)
(* core/verifier.py                                                        *)
(***************************************************************************)
NoResult == [called |-> FALSE]

\* the entries of steps_executed: "success" may be missing from the dict
StepEntries ==
    [step_id : StepIds, success : BOOLEAN] \cup [step_id : StepIds]

\* the error strings of a failed step: the tool's own error, or
\* "Tool '<name>' not found"
ErrorStrings == {"tool_error", "not_found"}

ErrorEntries == [step_id : StepIds, error : ErrorStrings]

\* step.get("success", False)
StepSuccess(step) ==
    IF "success" \in DOMAIN step THEN step.success ELSE FALSE

\* the issue lines, in the order the verifier appends them
ErrorIssues(errors) ==
    IF errors = <<>> THEN <<>>
    ELSE <<[kind |-> "count", n |-> Len(errors)]>> \o
         [i \in 1..Len(errors) |->
            [kind |-> "step", step_id |-> errors[i].step_id,
             error |-> errors[i].error]]

VerifyIssues(trace) ==
    (IF trace.steps_executed = <<>>
     THEN <<[kind |-> "no_steps"]>> ELSE <<>>)
    \o ErrorIssues(trace.errors)

VerifyRecommendations(trace) ==
    (IF trace.steps_executed = <<>>
     THEN <<"Review the execution plan for issues">> ELSE <<>>)
    \o (IF trace.errors # <<>>
        THEN <<"Review errors and retry failed steps">> ELSE <<>>)

AllSuccessful(trace) ==
    \A i \in 1..Len(trace.steps_executed) : StepSuccess(trace.steps_executed[i])

\* a verifier that forgets the per-step success check
verify_execution_mut(trace) ==
    [called |-> TRUE,
     verified |-> Len(VerifyIssues(trace)) = 0,
     issues |-> VerifyIssues(trace),
     recommendations |-> VerifyRecommendations(trace)]

\* VerifierAgent._verify_execution
verify_execution(trace) ==
    [called |-> TRUE,
     verified |-> (Len(VerifyIssues(trace)) = 0 /\ AllSuccessful(trace)),
     issues |-> VerifyIssues(trace),
     recommendations |-> VerifyRecommendations(trace)]

VfInputs ==
    [steps_executed : SeqsUpTo(StepEntries, MaxSteps),
     errors : SeqsUpTo(ErrorEntries, MaxSteps)]

VfIdle ==
    /\ vf_trace = [steps_executed |-> <<>>, errors |-> <<>>]
    /\ vf_result = NoResult

Verify ==
    /\ vf_result = NoResult
    /\ vf_result' = verify_execution(vf_trace)
    /\ UNCHANGED <<vf_trace, smVars, exVars, rmVars, busVars, plVars>>

(***************************************************************************)
(* core/executor.py                                                        *)
(*                                                                         *)
(* A plan is the list of its steps; the id of a step is its position in    *)
(* the list, so the ids of a plan are distinct.                            *)
(***************************************************************************)
\* the tools the command line and the HTTP surface register (cli.py:129-140)
RegisteredTools ==
    {"shell_command", "file_read", "file_write", "note_create", "note_list",
     "reminder_set", "reminder_list", "email_compose", "browser_open",
     "app_launch"}

\* tool names of the plans handed to the executor directly: a registered
\* tool, and the name the planner's generic plan uses
ExecTools == {"note_list", "generic_command"}

ExecPlans ==
    SeqsUpTo([tool_name : ExecTools, depends_on : SUBSET StepIds], MaxSteps)

\* the payload of an EXECUTE_REQUEST: "ok" carries a plan and a task id
ExecPayloads ==
    [kind : {"ok"}, plan : ExecPlans, task_id : TaskIds]
    \cup [kind : {"no_plan", "no_task", "bad_plan"}, task_id : TaskIds]

ExIdle == [pc |-> "idle"]

NoResults == [k \in StepIds |-> "none"]

ExInit ==
    /\ published = <<>>
    /\ ex = ExIdle
    /\ tool_invocations = <<>>

\* executor.py:126-130  unmet = [dep for dep in step.depends_on if dep not in results]
UnmetDeps(step, results) ==
    {dep \in step.depends_on : results[dep] = "none"}

\* executor.py:203-213 registry lookup
ToolFound(step) == step.tool_name \in RegisteredTools

\* executor.py:140-146
TraceStep(trace, k, success) ==
    [trace EXCEPT !.steps_executed =
        Append(@, [step_id |-> k, success |-> success])]

\* a trace that drops the error of a failed step
TraceErrorMut(trace, k, success, error) == trace

\* executor.py:148-154
TraceError(trace, k, success, error) ==
    IF success THEN trace
    ELSE [trace EXCEPT !.errors = Append(@, [step_id |-> k, error |-> error])]

ExecMessage(sender, payload) ==
    [type |-> "EXECUTE_REQUEST", sender |-> sender, recipient |-> "executor",
     correlation_id |-> 0, payload |-> payload]

\* executor.py:167-178
VerifyRequest(req, task, results, trace) ==
    [type |-> "VERIFY_REQUEST", sender |-> "executor", recipient |-> "verifier",
     correlation_id |-> req,
     payload |-> [task_id |-> task, results |-> results,
                  execution_trace |-> trace]]

\* verifier.py:84-120: the verdict is broadcast with results and trace
VerifyResponse(vreq) ==
    LET v == verify_execution(vreq.payload.execution_trace)
    IN [type |-> "VERIFY_RESPONSE", sender |-> "verifier",
        recipient |-> "broadcast", correlation_id |-> 0,
        payload |-> [task_id |-> vreq.payload.task_id,
                     verified |-> v.verified, issues |-> v.issues,
                     recommendations |-> v.recommendations,
                     results |-> vreq.payload.results,
                     execution_trace |-> vreq.payload.execution_trace]]

\* executor.py:95-118: the handler starts on a published EXECUTE_REQUEST
ExecStart(msg) ==
    /\ ex.pc = "idle"
    /\ published' = Append(published, msg)
    /\ IF msg.payload.kind = "ok"
       THEN LET t == msg.payload.task_id
            IN /\ execution_states' =
                    [RegisterStates(execution_states, t)
                        EXCEPT ![t].status = "running"]
               /\ active_tasks' = RegisterActive(active_tasks, t)
               /\ ex' = [pc |-> "steps", req |-> Len(published) + 1,
                         task |-> t, plan |-> msg.payload.plan, i |-> 1,
                         results |-> NoResults]
       ELSE UNCHANGED <<execution_states, active_tasks, ex>>
    /\ UNCHANGED <<sm_calls, tool_invocations, rmVars, busVars>>

\* a submitter publishes an EXECUTE_REQUEST with a payload of its choice
ExecuteRequest(payload) ==
    /\ published = <<>>
    /\ ExecStart(ExecMessage("cli", payload))
    /\ UNCHANGED <<vfVars, plVars>>

\* executor.py:122-130: a step with an unmet dependency is passed over
ExecSkip ==
    /\ ex.pc = "steps"
    /\ ex.i <= Len(ex.plan)
    /\ UnmetDeps(ex.plan[ex.i], ex.results) # {}
    /\ ex' = [ex EXCEPT !.i = @ + 1]
    /\ UNCHANGED <<published, tool_invocations, smVars, vfVars, rmVars, busVars, plVars>>

\* executor.py:132-154 and _execute_step: the step is executed; a known tool
\* is invoked and succeeds or fails, an unknown tool fails without a call
ExecStep(success) ==
    /\ ex.pc = "steps"
    /\ ex.i <= Len(ex.plan)
    /\ LET k == ex.i
           step == ex.plan[k]
           error == IF ToolFound(step) THEN "tool_error" ELSE "not_found"
           t == ex.task
       IN /\ UnmetDeps(step, ex.results) = {}
          /\ ToolFound(step) \/ ~success
          /\ tool_invocations' =
                IF ToolFound(step)
                THEN Append(tool_invocations,
                            [task |-> t, step_id |-> k,
                             tool_name |-> step.tool_name])
                ELSE tool_invocations
          /\ ex' = [ex EXCEPT !.i = @ + 1,
                              !.results[k] = IF success THEN "ok" ELSE "fail"]
          /\ execution_states' =
                [execution_states EXCEPT ![t] =
                    TraceError(TraceStep(@, k, success), k, success, error)]
    /\ UNCHANGED <<published, active_tasks, sm_calls, vfVars, rmVars, busVars, plVars>>

\* executor.py:156-178: the task is marked complete, the VERIFY_REQUEST is
\* published and the subscribed verifier answers it inside that publish
ExecFinish ==
    /\ ex.pc = "steps"
    /\ ex.i > Len(ex.plan)
    /\ LET t == ex.task
           es == CompleteStates(execution_states, t)
           vreq == VerifyRequest(ex.req, t, ex.results, es[t])
       IN /\ execution_states' = es
          /\ active_tasks' = CompleteActive(active_tasks, t)
          /\ published' = published \o <<vreq, VerifyResponse(vreq)>>
    /\ ex' = ExIdle
    /\ UNCHANGED <<sm_calls, tool_invocations, vfVars, rmVars, busVars, plVars>>

(***************************************************************************)
(* daemon/reminder_monitor.py and tools/reminders.py                       *)
(*                                                                         *)
(* reminders.json is a list of entries; an entry is addressed by its id.   *)
(* The monitor runs in the daemon process, reminder_set in the process of  *)
(* a submission surface, so the two interleave at every file access.       *)
(***************************************************************************)
RemIds == 1..MaxReminders
Times == 0..MaxTime

\* a scheduled_time string that datetime.fromisoformat rejects
BadTime == -1

Absent == [present |-> FALSE]

RemEntries ==
    {Absent}
    \cup [present : {TRUE}, is_active : {TRUE}, scheduled_time : Times \cup {BadTime}]
    \cup [present : {TRUE}, is_active : {FALSE}, scheduled_time : {0}]

MonIdle ==
    [pc |-> "sleep", list |-> [r \in RemIds |-> Absent], idx |-> 0,
     tick_now |-> 0, due |-> {}, flushed |-> {}, ticks |-> 0,
     success_channels |-> {}, running |-> TRUE]

RsIdle == [pc |-> "idle"]

\* the file left by earlier sessions; the monitor process has just started
RmInit ==
    /\ now = 0
    /\ rem_file \in [ok : {TRUE}, list : [RemIds -> RemEntries]]
    /\ rem_writer = "none"
    /\ mon = MonIdle
    /\ sent_notifications = {}
    /\ notified = [r \in RemIds |-> 0]
    /\ rs = RsIdle
    /\ restarts = 0

RmIdle ==
    /\ now = 0
    /\ rem_file = [ok |-> TRUE, list |-> [r \in RemIds |-> Absent]]
    /\ rem_writer = "none"
    /\ mon = MonIdle
    /\ sent_notifications = {}
    /\ notified = [r \in RemIds |-> 0]
    /\ rs = RsIdle
    /\ restarts = 0

\* reminder_monitor.py:101-106  scheduled = fromisoformat(...); scheduled <= now
IsDue(entry, t) ==
    /\ entry.scheduled_time # BadTime
    /\ entry.scheduled_time <= t

\* a loop that does not consult the fired set
FiresMut(entry, r, sent, t) ==
    /\ entry.present
    /\ entry.is_active
    /\ IsDue(entry, t)

\* reminder_monitor.py:88-111: the reminder the loop notifies
Fires(entry, r, sent, t) ==
    /\ entry.present
    /\ r \notin sent
    /\ entry.is_active
    /\ IsDue(entry, t)

\* a monitor that forgets which reminders it has fired
AddSentMut(sent, r) == sent

\* reminder_monitor.py:114  self.sent_notifications.add(reminder_id)
AddSent(sent, r) == sent \cup {r}

\* a monitor that leaves the reminder active
FlipMut(list, r) == list

\* reminder_monitor.py:117  reminder["is_active"] = False
Flip(list, r) == [list EXCEPT ![r].is_active = FALSE]

\* time passes
Advance ==
    /\ now < MaxTime
    /\ now' = now + 1
    /\ UNCHANGED <<rem_file, rem_writer, mon, sent_notifications, notified, rs,
                   restarts, smVars, vfVars, exVars, busVars, plVars>>

\* reminder_monitor.py:52-54, 72-86: the loop finds the flag set and a tick
\* starts; an unreadable file ends it
TickLoad ==
    /\ mon.pc = "sleep"
    /\ mon.running
    /\ mon' = IF rem_file.ok
              THEN [pc |-> "scan", list |-> rem_file.list, idx |-> 1,
                    tick_now |-> now,
                    due |-> {r \in RemIds :
                               Fires(rem_file.list[r], r,
                                     sent_notifications, now)},
                    flushed |-> {}, ticks |-> 1, success_channels |-> {},
                    running |-> mon.running]
              ELSE [mon EXCEPT !.due = {}, !.flushed = {}, !.ticks = 1,
                               !.success_channels = {}]
    /\ UNCHANGED <<now, rem_file, rem_writer, sent_notifications, notified, rs,
                   restarts, smVars, vfVars, exVars, busVars, plVars>>

\* reminder_monitor.py:88-124: an entry that is fired already, inactive,
\* malformed or not yet due is passed over
TickSkip ==
    /\ mon.pc = "scan"
    /\ mon.idx <= MaxReminders
    /\ ~Fires(mon.list[mon.idx], mon.idx, sent_notifications, mon.tick_now)
    /\ mon' = [mon EXCEPT !.idx = @ + 1]
    /\ UNCHANGED <<now, rem_file, rem_writer, sent_notifications, notified, rs,
                   restarts, smVars, vfVars, exVars, busVars, plVars>>

\* reminder_monitor.py:150-154
Channels == {"desktop", "email", "whatsapp"}

\* reminder_monitor.py:111-113, 131-166: a due reminder is handed to the
\* channels; each send returns whether it succeeded, and _send_notification
\* only logs which did
TickNotify(results) ==
    /\ mon.pc = "scan"
    /\ mon.idx <= MaxReminders
    /\ Fires(mon.list[mon.idx], mon.idx, sent_notifications, mon.tick_now)
    /\ mon' = [mon EXCEPT !.pc = "notifying",
                          !.success_channels = {ch \in Channels : results[ch]}]
    /\ UNCHANGED <<now, rem_file, rem_writer, sent_notifications, notified, rs,
                   restarts, smVars, vfVars, exVars, busVars, plVars>>

\* reminder_monitor.py:113-119 and _update_reminders: the channels have
\* returned; the id is recorded, the entry flipped and the write of the whole
\* list begins.  open(file, "w") fails and leaves the file as it was, or it
\* truncates the file and json.dump then fails, or json.dump starts writing
\* into the truncated file.
TickFlip(write) ==
    /\ mon.pc = "notifying"
    /\ LET r == mon.idx
           list == Flip(mon.list, r)
       IN /\ notified' = [notified EXCEPT ![r] = @ + 1]
          /\ sent_notifications' = AddSent(sent_notifications, r)
          /\ mon' = CASE write = "ok" ->
                           [mon EXCEPT !.pc = "writing", !.list = list]
                      [] write = "not_opened" ->
                           [mon EXCEPT !.pc = "scan", !.list = list,
                                       !.idx = @ + 1]
                      [] OTHER ->
                           [mon EXCEPT !.pc = "scan", !.list = list,
                                       !.idx = @ + 1, !.flushed = {}]
          /\ rem_file' =
                IF write = "not_opened" THEN rem_file
                ELSE [rem_file EXCEPT !.ok = FALSE]
          /\ rem_writer' = IF write = "not_opened" THEN rem_writer ELSE "monitor"
    /\ UNCHANGED <<now, rs, restarts, smVars, vfVars, exVars, busVars, plVars>>

\* reminder_monitor.py:176-177: json.dump has written the whole list and the
\* file is closed
TickWritten ==
    /\ mon.pc = "writing"
    /\ rem_file' = [ok |-> TRUE, list |-> mon.list]
    /\ rem_writer' = "monitor"
    /\ mon' = [mon EXCEPT !.pc = "scan", !.idx = @ + 1,
                          !.flushed = {q \in mon.due : q <= mon.idx}]
    /\ UNCHANGED <<now, sent_notifications, notified, rs, restarts,
                   smVars, vfVars, exVars, busVars, plVars>>

\* the loop is over: the monitor sleeps until the next tick
TickEnd ==
    /\ mon.pc = "scan"
    /\ mon.idx > MaxReminders
    /\ mon' = [mon EXCEPT !.pc = "sleep"]
    /\ UNCHANGED <<now, rem_file, rem_writer, sent_notifications, notified, rs,
                   restarts, smVars, vfVars, exVars, busVars, plVars>>

\* reminder_monitor.py:67-70: stop() clears the flag.  It is called on the
\* monitor's event loop, so it runs while the loop's coroutine is suspended:
\* in the sleep or in the sends of _send_notification
Stop ==
    /\ mon.running
    /\ mon.pc \in {"sleep", "notifying"}
    /\ mon' = [mon EXCEPT !.running = FALSE]
    /\ UNCHANGED <<now, rem_file, rem_writer, sent_notifications, notified, rs,
                   restarts, smVars, vfVars, exVars, busVars, plVars>>

\* reminder_monitor.py:52, 59: the sleep that follows a tick is over, the
\* loop finds the flag cleared and start() returns
LoopExit ==
    /\ mon.pc = "sleep"
    /\ ~mon.running
    /\ mon' = [mon EXCEPT !.pc = "returned"]
    /\ UNCHANGED <<now, rem_file, rem_writer, sent_notifications, notified, rs,
                   restarts, smVars, vfVars, exVars, busVars, plVars>>

\* api/main.py:59-66: GET /reminders, served by another process, opens the
\* file and parses what is in it at that moment: the whole list, or the
\* empty or half-written file of a write in progress
GetReminders ==
    /\ dashboard' = IF rem_file.ok THEN "complete" ELSE "partial"
    /\ UNCHANGED <<pl, validator, engine, tool_calls, memory_db, api, rmVars, smVars, vfVars,
                   exVars, busVars>>

\* the daemon process is stopped and started again: ReminderMonitor.__init__
Restart ==
    /\ restarts < MaxRestarts
    /\ restarts' = restarts + 1
    /\ mon' = MonIdle
    /\ sent_notifications' = {}
    /\ notified' = [r \in RemIds |-> 0]
    /\ UNCHANGED <<now, rem_file, rem_writer, rs, smVars, vfVars, exVars, busVars, plVars>>

\* tools/reminders.py:105-107: reminder_set reads the file
ReminderSetRead ==
    /\ rs.pc = "idle"
    /\ rem_file.ok
    /\ \E r \in RemIds : ~rem_file.list[r].present
    /\ now < MaxTime
    /\ rs' = [pc |-> "read", list |-> rem_file.list]
    /\ UNCHANGED <<now, rem_file, rem_writer, mon, sent_notifications, notified,
                   restarts, smVars, vfVars, exVars, busVars, plVars>>

\* tools/reminders.py:109-120: reminder_set appends its entry to what it read
\* and writes the list back
ReminderSetWrite(t) ==
    /\ rs.pc = "read"
    /\ t > now
    /\ \E r \in RemIds :
          /\ ~rs.list[r].present
          /\ ~rem_file.list[r].present
          /\ \A q \in RemIds :
                (~rs.list[q].present /\ ~rem_file.list[q].present) => r <= q
          /\ rem_file' =
                [ok |-> TRUE,
                 list |-> [rs.list EXCEPT ![r] =
                             [present |-> TRUE, is_active |-> TRUE,
                              scheduled_time |-> t]]]
    /\ rem_writer' = "tool"
    /\ rs' = RsIdle
    /\ UNCHANGED <<now, mon, sent_notifications, notified, restarts,
                   smVars, vfVars, exVars, busVars, plVars>>

(***************************************************************************)
(* coordination/bus.py : MessageBus                                        *)
(*                                                                         *)
(* The event loop runs one coroutine at a time; `running` names it.  A     *)
(* coroutine gives up the loop only where the code really awaits: inside a *)
(* handler that waits for I/O, and in wait_for on a future that is not     *)
(* done.  subscribe, unsubscribe, shutdown and clear_history never         *)
(* suspend, so they are single steps taken while nothing else runs.        *)
(***************************************************************************)
MsgIds == 1..MaxMsgs
\* one client coroutine is followed through a call; what the other
\* coroutines do to the bus appears as the steps that never suspend
Callers == {"client"}
Idle == "none"
HandlerIds == 1..NumHandlers
MessageTypes == {"plan_request", "plan_response"}

NoMessage ==
    [message_type |-> "none", sender |-> "none", recipient |-> "none",
     correlation_id |-> 0, status |-> "none"]

\* cli.py:168-173 and planner.py:113-122: who sends a message of a type, to whom
SenderOf(type) == IF type = "plan_request" THEN "cli" ELSE "planner"
RecipientOf(type) == IF type = "plan_request" THEN "planner" ELSE "cli"
NoFuture == [state |-> "none", result |-> 0]
NoFrame ==
    [f |-> "none", msg |-> 0, h |-> 0, b |-> "none", n |-> 0, yields |-> 0, visited |-> {},
     live |-> TRUE, snap |-> {}, dirty |-> FALSE, raised |-> FALSE,
     start |-> {}]
CallerIdle ==
    [kind |-> "none", pc |-> "idle", msg |-> 0, stack |-> <<>>,
     outcome |-> "none", result |-> 0, nosub |-> FALSE, nested |-> {}]

\* no get_history call was made
NoCall ==
    [called |-> FALSE, sender |-> "none", recipient |-> "none",
     message_type |-> "none", limit |-> 0, before |-> <<>>, result |-> <<>>]

\* bus.py:43: the asyncio.Lock, held by nobody
Unlocked == "unlocked"

\* a publish that awaits _route_message inside `async with self._lock`
LockWhileRoutingMut(c) == c

\* bus.py:52-66: the `async with self._lock` block ends before
\* _route_message is awaited, so the lock is free while the handlers run
LockWhileRouting(c) == Unlocked

\* MessageBus.__init__
BusInit ==
    /\ messages = [m \in MsgIds |-> NoMessage]
    /\ message_history = <<>>
    /\ subscribers = [T \in MessageTypes |-> {}]
    /\ pending_responses = {}
    /\ futures = [m \in MsgIds |-> NoFuture]
    /\ callers = [c \in Callers |-> CallerIdle]
    /\ running = Idle
    /\ delivered = [h \in HandlerIds |-> <<>>]
    /\ got = NoCall
    /\ closed = 0
    /\ lock = Unlocked

\* Message ids are handed out in creation order
NextId == Cardinality({m \in MsgIds : messages[m].message_type # "none"}) + 1

Top(stack) == stack[Len(stack)]
Pop(stack) == SubSeq(stack, 1, Len(stack) - 1)

\* publish, the part under the lock: status SENT, history append, eviction
PublishedMessages(msgs, m, fields) == [msgs EXCEPT ![m] = [fields EXCEPT !.status = "sent"]]

\* a history that, when full, drops the message being published
PublishedHistoryMut(hist, m) ==
    LET h == Append(hist, m)
    IN IF Len(h) > MaxHistory THEN hist ELSE h

PublishedHistory(hist, m) ==
    LET h == Append(hist, m)
    IN IF Len(h) > MaxHistory THEN Tail(h) ELSE h

\* _route_message starts: `handlers` is the subscriber set object itself, and
\* the for loop's iterator remembers the size of the set
RouteFrame(m, type) ==
    [NoFrame EXCEPT !.f = "route", !.msg = m,
                    !.n = Cardinality(subscribers[type]),
                    !.start = subscribers[type]]

\* the set object a route loop iterates: the live subscriber set, or the old
\* object once shutdown has cleared the subscriber table
FrameSet(fr) ==
    IF fr.live THEN subscribers[messages[fr.msg].message_type] ELSE fr.snap

\* what the set iterator can yield next: an unvisited member; after the set
\* was changed and restored to the same size, any member, or nothing
Candidates(fr) ==
    IF fr.dirty
    THEN IF fr.yields < fr.n THEN FrameSet(fr) ELSE {}
    ELSE FrameSet(fr) \ fr.visited

\* subscribe / unsubscribe change the set object the suspended loops hold
TouchFrames(cs, type, changed) ==
    [c \in Callers |->
        [cs[c] EXCEPT !.stack =
            [i \in 1..Len(cs[c].stack) |->
                LET fr == cs[c].stack[i]
                IN IF /\ changed
                      /\ fr.f = "route"
                      /\ fr.live
                      /\ messages[fr.msg].message_type = type
                   THEN [fr EXCEPT !.dirty = TRUE]
                   ELSE fr]]]

\* the loop's view of a set object that left the subscriber table: an
\* untouched set keeps its members still to visit; one whose size already
\* differs from the iterator's makes the next step of the loop raise
Detached(fr) ==
    IF Cardinality(FrameSet(fr)) # fr.n
    THEN [fr EXCEPT !.live = FALSE, !.snap = {}, !.visited = {}, !.n = -1,
                    !.yields = 0, !.dirty = FALSE]
    ELSE IF fr.dirty
    THEN [fr EXCEPT !.live = FALSE, !.snap = FrameSet(fr)]
    ELSE [fr EXCEPT !.live = FALSE, !.snap = FrameSet(fr) \ fr.visited,
                    !.visited = {}, !.yields = 0,
                    !.n = Cardinality(FrameSet(fr) \ fr.visited)]

\* shutdown's _subscribers.clear() drops the set objects from the table; a
\* loop that is iterating one keeps the object with its members
DetachFrames(cs) ==
    [c \in Callers |->
        [cs[c] EXCEPT !.stack =
            [i \in 1..Len(cs[c].stack) |->
                LET fr == cs[c].stack[i]
                IN IF fr.f = "route" /\ fr.live
                   THEN Detached(fr)
                   ELSE fr]]]

\* _route_message after the loop: a message whose correlation_id is a pending
\* key pops the waiter and, if the future is not done, becomes its result
Resolves(corr) == corr # 0 /\ corr \in pending_responses

\* a matching step that sets the result whether or not a waiter is pending
SetsResultMut(corr) == corr # 0 /\ futures[corr].state \in {"pending", "result"}

\* bus.py:119-122: the key is pending and its future is not done
SetsResult(corr) == Resolves(corr) /\ futures[corr].state = "pending"

ResolvedPending(corr) ==
    IF Resolves(corr) THEN pending_responses \ {corr} ELSE pending_responses

ResolvedFutures(m, corr) ==
    IF SetsResult(corr)
    THEN [futures EXCEPT ![corr] = [state |-> "result", result |-> m]]
    ELSE futures

Resolve(m) ==
    LET corr == messages[m].correlation_id
    IN /\ pending_responses' = ResolvedPending(corr)
       /\ futures' = ResolvedFutures(m, corr)
       /\ messages' = IF SetsResult(corr)
                      THEN [messages EXCEPT ![m].status = "completed"]
                      ELSE messages

\* the coroutine's own call returns: publish is over; request_response goes on
\* to wait_for, which returns at once when the future is already done
Returned(c, futs) ==
    LET k == callers[c].msg
    IN IF callers[c].kind = "publish"
       THEN [callers[c] EXCEPT !.pc = "done", !.stack = <<>>,
                               !.outcome = "returned"]
       ELSE IF futs[k].state = "result"
       THEN [callers[c] EXCEPT !.pc = "done", !.stack = <<>>,
                               !.outcome = "response",
                               !.result = futs[k].result]
       ELSE IF futs[k].state = "exception"
       THEN [callers[c] EXCEPT !.pc = "done", !.stack = <<>>,
                               !.outcome = "shutdown"]
       ELSE [callers[c] EXCEPT !.pc = "waiting", !.stack = <<>>]

\* bus.publish(message) by a client
Publish(c, type, corr) ==
    /\ running = Idle
    /\ lock = Unlocked
    /\ lock' = LockWhileRouting(c)
    /\ callers[c].pc = "idle"
    /\ NextId \in MsgIds
    /\ LET m == NextId
       IN /\ messages' = PublishedMessages(messages, m,
                            [message_type |-> type, sender |-> SenderOf(type),
                             recipient |-> RecipientOf(type),
                             correlation_id |-> corr, status |-> "pending"])
          /\ message_history' = PublishedHistory(message_history, m)
          /\ callers' = [callers EXCEPT ![c] =
                [CallerIdle EXCEPT !.kind = "publish", !.pc = "run",
                                   !.msg = m,
                                   !.stack = <<RouteFrame(m, type)>>]]
    /\ running' = c
    /\ UNCHANGED <<subscribers, pending_responses, futures>>
    /\ UNCHANGED <<delivered, got, closed, smVars, vfVars, exVars, rmVars, plVars>>

\* bus.publish(message) by another coroutine, with handlers that do not
\* await: the message is published, routed and matched in one step
PublishNow(type, corr) ==
    /\ running = Idle
    /\ lock = Unlocked
    /\ NextId \in MsgIds
    /\ LET m == NextId
       IN /\ messages' = [messages EXCEPT ![m] =
                [message_type |-> type, sender |-> SenderOf(type),
                 recipient |-> RecipientOf(type), correlation_id |-> corr,
                 status |-> IF SetsResult(corr) THEN "completed" ELSE "sent"]]
          /\ message_history' = PublishedHistory(message_history, m)
          /\ pending_responses' = ResolvedPending(corr)
          /\ futures' = ResolvedFutures(m, corr)
          /\ delivered' = [h \in HandlerIds |->
                IF h \in subscribers[type] THEN Append(delivered[h], m)
                ELSE delivered[h]]
    /\ UNCHANGED <<subscribers, callers, running>>
    /\ UNCHANGED <<got, closed, smVars, vfVars, exVars, rmVars, plVars,
                   lock>>

\* bus.publish(message) with a message object that was published before, by
\* a coroutine whose handlers do not suspend: the status is set to SENT again
\* and the object is appended to the history once more (bus.py:52-59), then
\* it is routed like any message (bus.py:66)
PublishAgain(m) ==
    /\ running = Idle
    /\ lock = Unlocked
    /\ messages[m].message_type # "none"
    /\ \A h \in subscribers[messages[m].message_type] :
           Len(delivered[h]) < MaxMsgs
    /\ LET type == messages[m].message_type
           corr == messages[m].correlation_id
       IN /\ messages' = [messages EXCEPT ![m].status =
                IF SetsResult(corr) THEN "completed" ELSE "sent"]
          /\ message_history' = PublishedHistory(message_history, m)
          /\ pending_responses' = ResolvedPending(corr)
          /\ futures' = ResolvedFutures(m, corr)
          /\ delivered' = [h \in HandlerIds |->
                IF h \in subscribers[type] THEN Append(delivered[h], m)
                ELSE delivered[h]]
    /\ UNCHANGED <<subscribers, callers, running>>
    /\ UNCHANGED <<got, closed, smVars, vfVars, exVars, rmVars, plVars,
                   lock>>

\* bus.request_response(message, timeout) with a PLAN_REQUEST
RequestResponse(c) ==
    /\ running = Idle
    /\ lock = Unlocked
    /\ lock' = LockWhileRouting(c)
    /\ callers[c].pc = "idle"
    /\ NextId \in MsgIds
    /\ LET m == NextId
       IN /\ messages' = PublishedMessages(messages, m,
                            [message_type |-> "plan_request",
                             sender |-> SenderOf("plan_request"),
                             recipient |-> RecipientOf("plan_request"),
                             correlation_id |-> m, status |-> "pending"])
          /\ futures' = [futures EXCEPT ![m] =
                            [state |-> "pending", result |-> 0]]
          /\ pending_responses' = pending_responses \cup {m}
          /\ message_history' = PublishedHistory(message_history, m)
          /\ callers' = [callers EXCEPT ![c] =
                [CallerIdle EXCEPT !.kind = "request", !.pc = "run",
                                   !.msg = m,
                                   !.stack = <<RouteFrame(m, "plan_request")>>,
                                   !.nosub = (subscribers["plan_request"] = {})]]
    /\ running' = c
    /\ UNCHANGED subscribers
    /\ UNCHANGED <<delivered, got, closed, smVars, vfVars, exVars, rmVars, plVars>>

\* the for loop asks the iterator for the next handler and calls it.  A
\* handler that returns or raises without awaiting is over at once (the loop
\* logs the exception and goes on); one that awaits I/O suspends the coroutine.
RouteInvoke(c, h, b) ==
    /\ running = c
    /\ Len(callers[c].stack) > 0
    /\ LET fr == Top(callers[c].stack)
           seen == [fr EXCEPT !.visited = @ \cup {h}, !.yields = @ + 1,
                              !.raised = @ \/ b = "raise"]
           base == [callers[c].stack EXCEPT ![Len(callers[c].stack)] = seen]
       IN /\ fr.f = "route"
          /\ Cardinality(FrameSet(fr)) = fr.n
          /\ h \in Candidates(fr)
          /\ delivered' = [delivered EXCEPT ![h] = Append(@, fr.msg)]
          /\ IF b \in {"return", "raise"}
             THEN /\ callers' = [callers EXCEPT ![c].stack = base]
                  /\ running' = c
             ELSE /\ callers' = [callers EXCEPT ![c].stack =
                        Append(base, [NoFrame EXCEPT !.f = "handler",
                                                     !.msg = fr.msg,
                                                     !.h = h, !.b = b])]
                  /\ running' = Idle
    /\ UNCHANGED <<messages, message_history, subscribers, pending_responses,
                   futures>>
    /\ UNCHANGED <<got, closed, smVars, vfVars, exVars, rmVars, plVars,
                   lock>>

\* a suspended handler is resumed: it returns, or it publishes its reply with
\* correlation_id = the id of the message it handles (planner.py:113-122)
HandlerResume(c) ==
    /\ running = Idle
    /\ callers[c].pc = "run"
    /\ Len(callers[c].stack) > 0
    /\ LET fr == Top(callers[c].stack)
           r == NextId
       IN /\ fr.f = "handler"
          /\ fr.b \in {"reply", "wait"}
          /\ IF fr.b = "reply" /\ r \in MsgIds
             THEN /\ lock = Unlocked
                  /\ lock' = LockWhileRouting(c)
                  /\ messages' = PublishedMessages(messages, r,
                        [message_type |-> "plan_response",
                         sender |-> SenderOf("plan_response"),
                         recipient |-> RecipientOf("plan_response"),
                         correlation_id |-> fr.msg, status |-> "pending"])
                  /\ message_history' = PublishedHistory(message_history, r)
                  /\ callers' = [callers EXCEPT ![c].stack =
                        Append([callers[c].stack EXCEPT
                                   ![Len(callers[c].stack)].b = "replied"],
                               RouteFrame(r, "plan_response")),
                                                ![c].nested = @ \cup {r}]
             ELSE /\ callers' = [callers EXCEPT ![c].stack = Pop(@)]
                  /\ UNCHANGED <<messages, message_history, lock>>
    /\ running' = c
    /\ UNCHANGED <<subscribers, pending_responses, futures>>
    /\ UNCHANGED <<delivered, got, closed, smVars, vfVars, exVars, rmVars, plVars>>

\* the loop is exhausted: the message is matched against the waiters and
\* _route_message returns, to the handler that published it or to the caller
RouteEnd(c) ==
    /\ running = c
    /\ Len(callers[c].stack) > 0
    /\ LET fr == Top(callers[c].stack)
       IN /\ fr.f = "route"
          /\ Cardinality(FrameSet(fr)) = fr.n
          /\ Candidates(fr) = {} \/ fr.dirty
          /\ Resolve(fr.msg)
          /\ IF Len(callers[c].stack) > 1
             THEN /\ callers' = [callers EXCEPT ![c].stack =
                        SubSeq(@, 1, Len(@) - 2)]
                  /\ running' = c
             ELSE /\ callers' = [callers EXCEPT ![c] = Returned(c, futures')]
                  /\ running' = Idle
    /\ UNCHANGED <<message_history, subscribers>>
    /\ UNCHANGED <<delivered, got, closed, smVars, vfVars, exVars, rmVars, plVars,
                   lock>>

\* the set changed size while a handler was suspended: the iterator raises
\* RuntimeError.  Inside a handler's publish the outer loop catches it; in the
\* caller's own publish nothing does (request_response catches TimeoutError
\* only and leaves its waiter registered)
RouteRaise(c) ==
    /\ running = c
    /\ Len(callers[c].stack) > 0
    /\ LET fr == Top(callers[c].stack)
       IN /\ fr.f = "route"
          /\ Cardinality(FrameSet(fr)) # fr.n
          /\ IF Len(callers[c].stack) > 1
             THEN /\ callers' = [callers EXCEPT ![c].stack =
                        SubSeq(@, 1, Len(@) - 2)]
                  /\ running' = c
             ELSE /\ callers' = [callers EXCEPT ![c].pc = "done",
                                                ![c].stack = <<>>,
                                                ![c].outcome = "raised"]
                  /\ running' = Idle
    /\ UNCHANGED <<messages, message_history, subscribers, pending_responses,
                   futures>>
    /\ UNCHANGED <<delivered, got, closed, smVars, vfVars, exVars, rmVars, plVars,
                   lock>>

\* wait_for really waits only when the request's key had left the waiter
\* table before its own routing ended (clear_history); nothing can reach that
\* future any more, so the wait ends when the timeout passes: wait_for
\* cancels the future and raises TimeoutError, the request is marked TIMEOUT
Timeout(c) ==
    /\ running = Idle
    /\ callers[c].pc = "waiting"
    /\ futures[callers[c].msg].state = "pending"
    /\ LET k == callers[c].msg
       IN /\ futures' = [futures EXCEPT ![k].state = "cancelled"]
          /\ messages' = [messages EXCEPT ![k].status = "timeout"]
          /\ pending_responses' = pending_responses \ {k}
          /\ callers' = [callers EXCEPT ![c].pc = "done",
                                        ![c].outcome = "timeout"]
    /\ UNCHANGED <<message_history, subscribers, running>>
    /\ UNCHANGED <<delivered, got, closed, smVars, vfVars, exVars, rmVars, plVars,
                   lock>>

Subscribe(type, h) ==
    /\ running = Idle
    /\ subscribers' = [subscribers EXCEPT ![type] = @ \cup {h}]
    /\ callers' = TouchFrames(callers, type, h \notin subscribers[type])
    /\ UNCHANGED <<messages, message_history, pending_responses, futures,
                   running>>
    /\ closed' = 0
    /\ UNCHANGED <<delivered, got, smVars, vfVars, exVars, rmVars, plVars,
                   lock>>

Unsubscribe(type, h) ==
    /\ running = Idle
    /\ subscribers' = [subscribers EXCEPT ![type] = @ \ {h}]
    /\ callers' = TouchFrames(callers, type, h \in subscribers[type])
    /\ UNCHANGED <<messages, message_history, pending_responses, futures,
                   running>>
    /\ UNCHANGED <<delivered, got, closed, smVars, vfVars, exVars, rmVars, plVars,
                   lock>>

\* clear_history also empties the waiter table, resolving nothing
ClearHistory ==
    /\ running = Idle
    /\ message_history' = <<>>
    /\ pending_responses' = {}
    /\ UNCHANGED <<messages, subscribers, futures, callers, running>>
    /\ UNCHANGED <<delivered, got, closed, smVars, vfVars, exVars, rmVars, plVars,
                   lock>>

\* shutdown: no subscribers, every waiter that is not done fails, no waiters
Shutdown ==
    /\ running = Idle
    /\ callers' = DetachFrames(callers)
    /\ subscribers' = [T \in MessageTypes |-> {}]
    /\ futures' = [k \in MsgIds |->
                     IF k \in pending_responses /\ futures[k].state = "pending"
                     THEN [state |-> "exception", result |-> 0]
                     ELSE futures[k]]
    /\ pending_responses' = {}
    /\ UNCHANGED <<messages, message_history, running>>
    /\ closed' = (IF closed = 0 THEN NextId ELSE closed)
    /\ UNCHANGED <<delivered, got, smVars, vfVars, exVars, rmVars, plVars,
                   lock>>

\* get_history's filters: an argument left None (or empty) filters nothing
None == "none"

\* bus.py:182-188
Matches(m, sender, recipient, type) ==
    /\ sender = None \/ messages[m].sender = sender
    /\ recipient = None \/ messages[m].recipient = recipient
    /\ type = None \/ messages[m].message_type = type

\* bus.py:181-191: the scan runs from the newest message to the oldest, takes
\* every match, and stops once it holds `limit` of them (checked after the
\* append, so the first match is taken whatever the limit)
RECURSIVE Scan(_, _, _, _, _, _, _)
Scan(hist, i, results, sender, recipient, type, limit) ==
    IF i = 0 THEN results
    ELSE IF ~Matches(hist[i], sender, recipient, type)
    THEN Scan(hist, i - 1, results, sender, recipient, type, limit)
    ELSE IF Len(results) + 1 >= limit
    THEN Append(results, hist[i])
    ELSE Scan(hist, i - 1, Append(results, hist[i]), sender, recipient, type,
              limit)

Reversed(s) == [i \in 1..Len(s) |-> s[Len(s) + 1 - i]]

\* a get_history that returns what the scan collected as it stands
get_history_mut(hist, sender, recipient, type, limit) ==
    Scan(hist, Len(hist), <<>>, sender, recipient, type, limit)

\* bus.py:161-193: the collected messages are returned reversed again
get_history(hist, sender, recipient, type, limit) ==
    Reversed(Scan(hist, Len(hist), <<>>, sender, recipient, type, limit))

\* the messages the surfaces and the planner exchange: sender, recipient, type
Envelopes ==
    {<<"cli", "planner", "plan_request">>, <<"api", "planner", "plan_request">>,
     <<"planner", "cli", "plan_response">>}
Senders == {e[1] : e \in Envelopes}
Recipients == {e[2] : e \in Envelopes}
Limits == 0..MaxLimit

\* bus.publish(message) on a bus without subscribers: the message is stamped
\* SENT and appended to the history, and routing finds no handler and no waiter
PublishFrom(sender, recipient, type) ==
    /\ running = Idle
    /\ lock = Unlocked
    /\ NextId \in MsgIds
    /\ \A T \in MessageTypes : subscribers[T] = {}
    /\ messages' = PublishedMessages(messages, NextId,
                      [message_type |-> type, sender |-> sender,
                       recipient |-> recipient, correlation_id |-> 0,
                       status |-> "pending"])
    /\ message_history' = PublishedHistory(message_history, NextId)
    /\ UNCHANGED <<subscribers, pending_responses, futures, callers, running,
                   delivered, got, closed>>
    /\ UNCHANGED <<smVars, vfVars, exVars, rmVars, plVars,
                   lock>>

\* bus.get_history(sender, recipient, message_type, limit)
GetHistory(sender, recipient, type, limit) ==
    /\ running = Idle
    /\ got' = [called |-> TRUE, sender |-> sender, recipient |-> recipient,
               message_type |-> type, limit |-> limit,
               before |-> message_history,
               result |-> get_history(message_history, sender, recipient,
                                      type, limit)]
    /\ UNCHANGED <<messages, message_history, subscribers, pending_responses,
                   futures, callers, running, delivered, closed>>
    /\ UNCHANGED <<smVars, vfVars, exVars, rmVars, plVars,
                   lock>>

BusIdle == BusInit

(***************************************************************************)
(* core/risk.py, core/planning.py, core/planner.py and the submission      *)
(* surfaces: cli.py, api/main.py, discord/bot.py                           *)
(*                                                                         *)
(* A message's id is its position in `published`.                          *)
(***************************************************************************)
PlanTools == {"shell_command", "note_create", "note_list", "generic_command"}

\* gemini_planner.py:83-91: any number of steps, every one with depends_on=[]
BackendPlans == SeqsUpTo([tool_name : PlanTools, depends_on : {{}}], MaxSteps)

\* planner.py:195-569: the tool names of the rule-based plans; the generic
\* plan (planner.py:302-321) names "generic_command"
FallbackTools ==
    {"app_launch", "shell_command", "generic_command", "note_create",
     "note_list", "reminder_set", "reminder_list", "file_write", "file_read",
     "email_compose"}

\* planner.py:195-569: every rule-based plan has one step, without dependencies
FallbackPlans ==
    {<<[tool_name |-> tn, depends_on |-> {}]>> : tn \in FallbackTools}

\* planning_engine.plan_task: no plan (no model, or the call failed inside
\* GeminiPlanner), a plan, or an exception raised before its try block
BackendResults ==
    {[kind |-> "none", steps |-> <<>>], [kind |-> "raises", steps |-> <<>>]}
    \cup [kind : {"plan"}, steps : BackendPlans]

\* what a PLAN_REQUEST can carry under the key "task"
PlanPayloads == {"absent", "null", "empty", "nondict", "invalid", "valid"}

Surfaces == {"cli", "api", "other"}

\* risk.py:51-86, scores in hundredths
evaluate_step(tool_name) ==
    IF tool_name \in {"shell_command"}
    THEN [level |-> "high", score |-> 90]
    ELSE IF tool_name \in {"file_write", "note_create", "reminder_set",
                           "app_launch"}
    THEN [level |-> "medium", score |-> 50]
    ELSE [level |-> "low", score |-> 10]

MaxOf(S) == CHOOSE x \in S : \A y \in S : y <= x

\* an evaluation that takes the score of the plan's last step
evaluate_plan_mut(steps) ==
    IF Len(steps) = 0 THEN [level |-> "low", score |-> 0]
    ELSE LET max_score == evaluate_step(steps[Len(steps)].tool_name).score
         IN [level |-> IF max_score >= 80 THEN "high"
                       ELSE IF max_score >= 40 THEN "medium" ELSE "low",
             score |-> max_score]

\* risk.py:88-116
evaluate_plan(steps) ==
    IF Len(steps) = 0 THEN [level |-> "low", score |-> 0]
    ELSE LET max_score ==
                 MaxOf({evaluate_step(steps[i].tool_name).score :
                           i \in 1..Len(steps)})
         IN [level |-> IF max_score >= 80 THEN "high"
                       ELSE IF max_score >= 40 THEN "medium" ELSE "low",
             score |-> max_score]

\* a permissive mode that asks from 0.95 on
requires_confirmation_mut(mode, risk) ==
    IF mode = "strict" THEN risk.level # "low"
    ELSE IF mode = "permissive" THEN risk.level = "high" /\ risk.score >= 95
    ELSE risk.level = "high"

\* risk.py:138-148
requires_confirmation(mode, risk) ==
    IF mode = "strict" THEN risk.level # "low"
    ELSE IF mode = "permissive" THEN risk.level = "high" /\ risk.score > 95
    ELSE risk.level = "high"

\* every RiskEngine in the program is built with the default mode
Mode == "balanced"

\* the steps reachable from the steps S through depends_on, in n rounds.  A
\* step's id is its position in the plan (PlanStep.id is a fresh uuid4, so no
\* two steps share one); an id outside the plan names no step.
RECURSIVE Reachable(_, _, _)
Reachable(steps, S, n) ==
    IF n = 0 THEN S
    ELSE Reachable(steps,
                   S \cup UNION {steps[j].depends_on : j \in S \cap DOMAIN steps},
                   n - 1)

\* the dependency graph has a cycle: a step reaches itself
HasCycle(steps) ==
    \E i \in DOMAIN steps : i \in Reachable(steps, steps[i].depends_on, Len(steps))

MinOf(S) == CHOOSE x \in S : \A y \in S : x <= y

\* planning.py:82-98: dfs(step_id) over the sets visited and rec_stack.  An
\* id that names no step returns False at line 88 and stays in rec_stack.
RECURSIVE dfs(_, _, _)
RECURSIVE dfs_deps(_, _, _)
dfs(steps, step_id, st) ==
    LET entered == [st EXCEPT !.visited = @ \cup {step_id},
                              !.rec_stack = @ \cup {step_id}]
    IN IF step_id \notin DOMAIN steps THEN entered
       ELSE LET r == dfs_deps(steps, steps[step_id].depends_on, entered)
            IN IF r.found THEN r
               ELSE [r EXCEPT !.rec_stack = @ \ {step_id}]

\* planning.py:90-95: the loop over step.depends_on
dfs_deps(steps, deps, st) ==
    IF deps = {} THEN st
    ELSE LET dep_id == MinOf(deps)
         IN IF dep_id \notin st.visited
            THEN LET r == dfs(steps, dep_id, st)
                 IN IF r.found THEN r
                    ELSE dfs_deps(steps, deps \ {dep_id}, r)
            ELSE IF dep_id \in st.rec_stack
            THEN [st EXCEPT !.found = TRUE]
            ELSE dfs_deps(steps, deps \ {dep_id}, st)

\* planning.py:100-105: the loop over the plan's steps
RECURSIVE dfs_steps(_, _, _)
dfs_steps(steps, i, st) ==
    IF i > Len(steps) THEN FALSE
    ELSE IF i \in st.visited THEN dfs_steps(steps, i + 1, st)
    ELSE LET r == dfs(steps, i, st)
         IN r.found \/ dfs_steps(steps, i + 1, r)

\* a check that finds no cycle at all
has_circular_dependency_mut(steps) ==
    FALSE

\* planning.py:77-105
has_circular_dependency(steps) ==
    dfs_steps(steps, 1, [found |-> FALSE, visited |-> {}, rec_stack |-> {}])

\* planning.py:107-117: no dependency that is in the plan stands at or after
\* the step that depends on it
check_ordering(steps) ==
    \A i \in DOMAIN steps :
        \A dep_id \in steps[i].depends_on \cap DOMAIN steps : dep_id < i

NoSteps == "Plan has no execution steps"
Circular == "Plan has circular step dependencies"
Undefined == "Step depends on undefined step"
Misordered == "Step ordering may not respect all dependencies"

\* planning.py:40-75: what validate() returns and leaves in errors, warnings
Validated(steps) ==
    IF Len(steps) = 0
    THEN [valid |-> FALSE, errors |-> {NoSteps}, warnings |-> {}]
    ELSE IF has_circular_dependency(steps)
    THEN [valid |-> FALSE, errors |-> {Circular}, warnings |-> {}]
    ELSE LET errors ==
                 IF \E i \in DOMAIN steps :
                        ~(steps[i].depends_on \subseteq DOMAIN steps)
                 THEN {Undefined} ELSE {}
         IN [valid |-> errors = {}, errors |-> errors,
             warnings |-> IF check_ordering(steps) THEN {}
                          ELSE {Misordered}]

\* planning.py:40-75: empty, circular, or a dependency on an undefined step
\* make the plan invalid; an ordering violation is a warning only
validate(steps) == Validated(steps).valid

\* no PlanValidator was built
NoValidator ==
    [plan |-> <<>>, called |-> FALSE, valid |-> FALSE, errors |-> {},
     warnings |-> {}]

\* risk.py:23-29: a RiskScore that was not computed
NoRisk == [level |-> "none", score |-> 0]

\* a RiskEngine in the default mode that was not asked anything
NoEngine ==
    [mode |-> Mode, steps |-> <<>>, risk |-> NoRisk, asked |-> NoRisk,
     confirm |-> FALSE]

\* api/main.py: no task was posted yet, no agent is subscribed on the bus of
\* the process (bus.py:216-225)
ApiIdle ==
    [pc |-> "idle", agents |-> 0, pending |-> 0, task |-> 0, plan |-> <<>>,
     req |-> 0]

\* the keys of the session context: bot.py:84,121 uses "mode"
ContextKeys == {"mode", "topic"}

\* Python values that json.dumps accepts and json.loads gives back
ContextValues == {"None", "True", "'dev'", "['dev']"}

\* json.dumps (memory.py:172)
dumps(value) ==
    CASE value = "None" -> "null"
      [] value = "True" -> "true"
      [] value = "'dev'" -> "\"dev\""
      [] OTHER -> "[\"dev\"]"

\* json.loads (memory.py:185, 191)
loads(text) ==
    CASE text = "null" -> "None"
      [] text = "true" -> "True"
      [] text = "\"dev\"" -> "'dev'"
      [] OTHER -> "['dev']"

\* no row for the key in table session_context
NoRow == "no row"

\* INSERT OR IGNORE: the first value of a key is kept
set_session_context_mut(table, key, value) ==
    IF table[key] = NoRow THEN [table EXCEPT ![key] = dumps(value)] ELSE table

\* memory.py:170-178: INSERT OR REPLACE on the primary key
set_session_context(table, key, value) ==
    [table EXCEPT ![key] = dumps(value)]

\* memory.py:180-185
get_session_context(table, key) ==
    IF table[key] # NoRow THEN loads(table[key]) ELSE "None"

\* memory.py:187-191: a dict of the rows; a key without a row is not in it
get_all_session_context(table) ==
    [key \in {k \in ContextKeys : table[k] # NoRow} |-> loads(table[key])]

\* memory.py:66-84 (_init_db on a new file): both tables are empty.  `latest`
\* and `replaced` record the calls: the last value set for each key, and the
\* keys set more than once
NoMemory ==
    [session_context |-> [k \in ContextKeys |-> NoRow], memory |-> 0,
     latest |-> [k \in ContextKeys |-> "unset"], replaced |-> {},
     got |-> [op |-> "none"]]

CoreIdle ==
    /\ validator = NoValidator /\ engine = NoEngine /\ dashboard = "none"
    /\ tool_calls = <<>>
    /\ memory_db = NoMemory
    /\ api = ApiIdle

PlOnly ==
    pl = [pc |-> "idle", surface |-> "none", task |-> 0, plan |-> <<>>,
          has_plan |-> FALSE, confirmed |-> FALSE]

PlIdle == PlOnly /\ CoreIdle

\* cli.py:168-173, api/main.py:141-146
PlanRequest(surface, t, payload) ==
    [type |-> "PLAN_REQUEST", sender |-> surface, recipient |-> "planner",
     correlation_id |-> 0, payload |-> [kind |-> payload, task_id |-> t]]

\* planner.py:113-122, with the risk score of planner.py:94-100
PlanResponse(id, req, steps) ==
    [type |-> "PLAN_RESPONSE", sender |-> "planner", recipient |-> req.sender,
     correlation_id |-> id,
     payload |-> [plan |-> steps, task_id |-> req.payload.task_id,
                  risk_score |-> evaluate_plan(steps)]]

\* planner.py:571-585
RequestFailed(id, req, error) ==
    [type |-> "REQUEST_FAILED", sender |-> "planner", recipient |-> req.sender,
     correlation_id |-> id,
     payload |-> [error |-> error, task_id |-> req.payload.task_id]]

\* planner.py:59-131: the replies handle_message publishes for a request.
\*   no "task" key, or an empty dict: "No task in request";
\*   "task" is None: _send_error_response evaluates None.get("id"), raises
\*     AttributeError inside the try, and again inside the except: no reply;
\*   "task" is not a dict: TaskDefinition(**task) raises, and the error reply
\*     raises AttributeError on task.get("id"): no reply;
\*   a dict that is no TaskDefinition: the validation error is replied;
\*   otherwise the backend's plan, or the fallback's when there is none, is
\*     replied whatever validate_plan returns (its failure is only logged).
handle_message(id, req, backend, fallback) ==
    LET kind == req.payload.kind
    IN IF kind \in {"absent", "empty"}
       THEN <<RequestFailed(id, req, "No task in request")>>
       ELSE IF kind \in {"null", "nondict"}
       THEN <<>>
       ELSE IF kind = "invalid"
       THEN <<RequestFailed(id, req, "validation error")>>
       ELSE IF backend.kind = "raises"
       THEN <<RequestFailed(id, req, "planning error")>>
       ELSE IF backend.kind = "none"
       THEN <<PlanResponse(id, req, fallback)>>
       ELSE <<PlanResponse(id, req, backend.steps)>>

\* a task is submitted on the command line or over HTTP, or some other bus
\* client publishes a PLAN_REQUEST of its own making
SubmitTask(surface, t, payload) ==
    /\ pl.pc = "idle"
    /\ published = <<>>
    /\ surface \in {"cli", "api"} => payload = "valid"
    /\ published' = <<PlanRequest(surface, t, payload)>>
    /\ pl' = [pl EXCEPT !.pc = "planning", !.surface = surface, !.task = t]
    /\ UNCHANGED <<ex, tool_invocations, smVars, vfVars, rmVars, busVars>>
    /\ UNCHANGED coreVars

\* discord/bot.py:139-229: the run command calls PlannerAgent.plan_task, a
\* method the class does not have; the error is reported and nothing more
ChatRun(t) ==
    /\ pl.pc = "idle"
    /\ published = <<>>
    /\ pl' = [pl EXCEPT !.pc = "failed", !.surface = "chat", !.task = t]
    /\ UNCHANGED <<exVars, smVars, vfVars, rmVars, busVars>>
    /\ UNCHANGED coreVars

\* the planner handles the request
PlannerHandle(backend, fallback) ==
    /\ pl.pc = "planning"
    /\ published' = published \o handle_message(1, published[1], backend, fallback)
    /\ pl' = [pl EXCEPT !.pc = "replied"]
    /\ UNCHANGED <<ex, tool_invocations, smVars, vfVars, rmVars, busVars>>
    /\ UNCHANGED coreVars

\* bus.py:119-124: request_response returns the last message routed with the
\* request's correlation id, which is the request itself when nobody replied
Response == published[Len(published)]

\* cli.py:182-219, api/main.py:148-150: the submitter reads the plan out of
\* the response; the command line asks before a plan that requires it
ReceiveResponse ==
    /\ pl.pc = "replied"
    /\ LET has_plan == Response.type = "PLAN_RESPONSE"
       IN pl' = [pl EXCEPT
                   !.has_plan = has_plan,
                   !.plan = IF has_plan THEN Response.payload.plan ELSE <<>>,
                   !.pc = IF ~has_plan \/ pl.surface = "other" THEN "stopped"
                          ELSE IF /\ pl.surface = "cli"
                                  /\ requires_confirmation(Mode,
                                        Response.payload.risk_score)
                          THEN "confirming"
                          ELSE "approved"]
    /\ UNCHANGED <<exVars, smVars, vfVars, rmVars, busVars>>
    /\ UNCHANGED coreVars

Answers == {"y", "Y", "n", ""}

\* cli.py:212-216: confirm.lower() != 'y' cancels
Confirm(answer) ==
    /\ pl.pc = "confirming"
    /\ pl' = IF answer \in {"y", "Y"}
             THEN [pl EXCEPT !.pc = "approved", !.confirmed = TRUE]
             ELSE [pl EXCEPT !.pc = "cancelled"]
    /\ UNCHANGED <<exVars, smVars, vfVars, rmVars, busVars>>
    /\ UNCHANGED coreVars

\* a submitter that publishes EXECUTE_REQUEST without waiting for the plan
PublishExecuteMut ==
    /\ pl.pc = "planning"
    /\ ExecStart(ExecMessage(pl.surface,
                    [kind |-> "ok", plan |-> pl.plan, task_id |-> pl.task]))
    /\ pl' = [pl EXCEPT !.pc = "submitted"]
    /\ UNCHANGED vfVars
    /\ UNCHANGED coreVars

\* cli.py:222-231, api/main.py:151-158: EXECUTE_REQUEST is published and the
\* executor starts on it
PublishExecute ==
    /\ pl.pc = "approved"
    /\ ExecStart(ExecMessage(pl.surface,
                    [kind |-> "ok", plan |-> pl.plan, task_id |-> pl.task]))
    /\ pl' = [pl EXCEPT !.pc = "submitted"]
    /\ UNCHANGED vfVars
    /\ UNCHANGED coreVars

\* the plans a PlanValidator can be given: steps that depend on steps of the
\* plan, on themselves, or on an id that is not in the plan
DepIds == 1..(MaxPlanSteps + 1)
DepSets == {D \in SUBSET DepIds : Cardinality(D) <= MaxDeps}
ValidatorPlans ==
    SeqsUpTo([tool_name : {"note_create"}, depends_on : DepSets], MaxPlanSteps)

\* PlanValidator(plan=plan).validate()
Validate ==
    /\ ~validator.called
    /\ validator' = [plan |-> validator.plan, called |-> TRUE] @@
                    Validated(validator.plan)
    /\ UNCHANGED <<pl, engine, dashboard, tool_calls, memory_db, api, smVars, vfVars, exVars,
                   rmVars, busVars>>

(***************************************************************************)
(* Specifications                                                          *)
(***************************************************************************)
\* the tools a step can name: every tool risk.py names and two it does not
RiskTools ==
    {"shell_command", "file_write", "note_create", "reminder_set",
     "app_launch", "note_list", "generic_command"}

\* risk.py:42-49: the three modes and a mode the engine does not know
Modes == {"strict", "balanced", "permissive", "paranoid"}
Levels == {"low", "medium", "high"}

\* risk.py:23-29: RiskScore objects as a caller can build them, score in
\* hundredths
RiskScores == [level : Levels, score : {0, 10, 50, 90, 95, 96, 100}]

\* the plan grows by a step and engine.evaluate_plan(steps) is called on it
AddStep(tool_name) ==
    /\ Len(engine.steps) < MaxRiskSteps
    /\ LET steps == Append(engine.steps, [tool_name |-> tool_name])
       IN engine' = [engine EXCEPT !.steps = steps,
                                   !.risk = evaluate_plan(steps)]
    /\ UNCHANGED <<pl, validator, dashboard, tool_calls, memory_db, api, smVars, vfVars,
                   exVars, rmVars, busVars>>

\* engine.requires_confirmation(risk)
RequiresConfirmation(risk) ==
    /\ engine' = [engine EXCEPT !.asked = risk,
                                !.confirm = requires_confirmation(engine.mode, risk)]
    /\ UNCHANGED <<pl, validator, dashboard, tool_calls, memory_db, api, smVars, vfVars,
                   exVars, rmVars, busVars>>

\* notes.py:25-30, file_operations.py:125-129, app_tools.py:15-19: the output
\* schemas that have a field without a default
RequiresOutputFields(tool) == tool \in {"note_create", "file_write", "app_launch"}

InvalidInput == "Invalid input: "
ExecutionFailed == "Execution failed: "

\* how a call can go: the arguments fail the input schema, or they pass and
\* execute returns its output, raises a ValueError (or a subclass of it), or
\* raises an exception of another class
Runs == {"invalid_args", "returns", "raises_value_error", "raises_other"}

\* tools/base.py:108-117: the handler builds output_schema(success=False,
\* error=...); a schema with a required field rejects that, and the
\* ValidationError leaves validate_and_execute
Handled(tool, prefix, executed) ==
    IF RequiresOutputFields(tool)
    THEN [raised |-> TRUE, success |-> FALSE, error |-> "none",
          executed |-> executed]
    ELSE [raised |-> FALSE, success |-> FALSE, error |-> prefix,
          executed |-> executed]

\* tools/base.py:81-117
validate_and_execute(tool, run) ==
    CASE run = "invalid_args" -> Handled(tool, InvalidInput, FALSE)
      [] run = "returns" ->
            [raised |-> FALSE, success |-> TRUE, error |-> "none",
             executed |-> TRUE]
      [] run = "raises_value_error" -> Handled(tool, InvalidInput, TRUE)
      [] OTHER -> Handled(tool, ExecutionFailed, TRUE)

\* await tool.validate_and_execute(**args)
ToolCall(tool, run) ==
    /\ Len(tool_calls) < MaxToolCalls
    /\ tool_calls' = Append(tool_calls,
                            [tool |-> tool, run |-> run,
                             output |-> validate_and_execute(tool, run)])
    /\ UNCHANGED <<pl, validator, engine, dashboard, memory_db, api, smVars, vfVars,
                   exVars, rmVars, busVars>>

\* engine.set_session_context(key, value)
SetSessionContext(key, value) ==
    /\ memory_db' =
          [memory_db EXCEPT
              !.session_context = set_session_context(@, key, value),
              !.latest[key] = value,
              !.replaced = IF memory_db.latest[key] # "unset"
                           THEN @ \cup {key} ELSE @]
    /\ UNCHANGED <<pl, validator, engine, dashboard, tool_calls, api, smVars,
                   vfVars, exVars, rmVars, busVars>>

\* engine.get_session_context(key)
GetSessionContext(key) ==
    /\ memory_db' =
          [memory_db EXCEPT
              !.got = [op |-> "get", key |-> key,
                       value |-> get_session_context(
                                    memory_db.session_context, key)]]
    /\ UNCHANGED <<pl, validator, engine, dashboard, tool_calls, api, smVars,
                   vfVars, exVars, rmVars, busVars>>

\* engine.get_all_session_context()
GetAllSessionContext ==
    /\ memory_db' =
          [memory_db EXCEPT
              !.got = [op |-> "all",
                       value |-> get_all_session_context(
                                    memory_db.session_context)]]
    /\ UNCHANGED <<pl, validator, engine, dashboard, tool_calls, api, smVars,
                   vfVars, exVars, rmVars, busVars>>

\* memory.py:86-104: store inserts a row into table memory
Store ==
    /\ memory_db.memory < MaxMemories
    /\ memory_db' = [memory_db EXCEPT !.memory = @ + 1]
    /\ UNCHANGED <<pl, validator, engine, dashboard, tool_calls, api, smVars,
                   vfVars, exVars, rmVars, busVars>>

\* memory.py:193-201: prune_old_memories deletes the rows of table memory
\* that are older than the limit, `old` of them
PruneOldMemories(old) ==
    /\ old <= memory_db.memory
    /\ memory_db' = [memory_db EXCEPT !.memory = @ - old]
    /\ UNCHANGED <<pl, validator, engine, dashboard, tool_calls, api, smVars,
                   vfVars, exVars, rmVars, busVars>>

\* cli.py:243 with bus.py:180-193: the filter of the submitter's poll
FromVerifier(msg) == msg.sender = "verifier" /\ msg.type = "VERIFY_RESPONSE"

\* a poll that looks for messages addressed to the submitter
poll_history_mut(hist) == SelectSeq(hist, LAMBDA msg : msg.recipient = "cli")

\* cli.py:241-245: get_history(sender="verifier", message_type=VERIFY_RESPONSE)
poll_history(hist) == SelectSeq(hist, FromVerifier)

\* the same messages from each of n handlers, one handler after the other
Repeated(msgs, n) ==
    [i \in 1..(n * Len(msgs)) |-> msgs[((i - 1) % Len(msgs)) + 1]]

\* api/main.py:109-150: POST /tasks/run creates a planner, an executor and a
\* verifier and initializes them on the bus of the process (agents.py:60-73
\* subscribes their handlers), then asks for a plan.  Every planner
\* subscribed so far handles the PLAN_REQUEST; the task id is a new uuid4,
\* here the next id not yet used
ApiRunTask(t, backend, fallback) ==
    /\ api.pc = "idle"
    /\ ex.pc = "idle"
    /\ api.agents < MaxApiTasks
    /\ t = api.agents + 1
    /\ execution_states[t] = NoState
    /\ LET n == api.agents + 1
           req == PlanRequest("api", t, "valid")
           replies == handle_message(Len(published) + 1, req, backend, fallback)
           has_plan == replies[1].type = "PLAN_RESPONSE"
       IN /\ published' = published \o <<req>> \o Repeated(replies, n)
          /\ api' = [pc |-> IF has_plan THEN "planned" ELSE "idle",
                     agents |-> n, pending |-> 0, task |-> t,
                     plan |-> IF has_plan THEN replies[1].payload.plan
                              ELSE <<>>,
                     req |-> 0]
    /\ UNCHANGED <<pl, validator, engine, dashboard, tool_calls, memory_db,
                   ex, tool_invocations, smVars, vfVars, rmVars, busVars>>

\* api/main.py:151-158: EXECUTE_REQUEST is published; the first executor
\* subscribed starts on it and the others wait their turn (bus.py:107-114)
ApiPublishExecute ==
    /\ api.pc = "planned"
    /\ ExecStart(ExecMessage("api", [kind |-> "ok", plan |-> api.plan,
                                     task_id |-> api.task]))
    /\ api' = [api EXCEPT !.pc = "executing", !.pending = api.agents - 1,
                          !.req = Len(published) + 1]
    /\ UNCHANGED <<pl, validator, engine, dashboard, tool_calls, memory_db,
                   vfVars>>

\* executor.py:156-178 on the bus of the process: the VERIFY_REQUEST is
\* handled by every verifier subscribed so far
ApiExecFinish ==
    /\ api.pc = "executing"
    /\ ex.pc = "steps"
    /\ ex.i > Len(ex.plan)
    /\ LET t == ex.task
           es == CompleteStates(execution_states, t)
           vreq == VerifyRequest(ex.req, t, ex.results, es[t])
       IN /\ execution_states' = es
          /\ active_tasks' = CompleteActive(active_tasks, t)
          /\ published' = published \o <<vreq>>
                             \o Repeated(<<VerifyResponse(vreq)>>, api.agents)
    /\ ex' = ExIdle
    /\ UNCHANGED <<sm_calls, tool_invocations, vfVars, rmVars, busVars, plVars>>

\* bus.py:107-114: the next executor in the subscriber set is invoked with
\* the same EXECUTE_REQUEST (executor.py:95-118)
ApiExecAgain ==
    /\ api.pc = "executing"
    /\ ex.pc = "idle"
    /\ api.pending > 0
    /\ execution_states' =
          [RegisterStates(execution_states, api.task)
              EXCEPT ![api.task].status = "running"]
    /\ active_tasks' = RegisterActive(active_tasks, api.task)
    /\ ex' = [pc |-> "steps", req |-> api.req, task |-> api.task,
              plan |-> api.plan, i |-> 1, results |-> NoResults]
    /\ api' = [api EXCEPT !.pending = @ - 1]
    /\ UNCHANGED <<pl, validator, engine, dashboard, tool_calls, memory_db,
                   published, sm_calls, tool_invocations, vfVars, rmVars,
                   busVars>>

\* api/main.py:158-166: publish returned; after the sleep the three agents
\* are shut down, which publishes their status and unsubscribes nothing
\* (agents.py:75-78)
ApiReturn ==
    /\ api.pc = "executing"
    /\ ex.pc = "idle"
    /\ api.pending = 0
    /\ api' = [api EXCEPT !.pc = "idle"]
    /\ UNCHANGED <<pl, validator, engine, dashboard, tool_calls, memory_db,
                   exVars, smVars, vfVars, rmVars, busVars>>

\* PlanValidator on every plan
PlanInit ==
    /\ BusIdle /\ PlOnly /\ SmInit /\ VfIdle /\ ExInit /\ RmIdle
    /\ engine = NoEngine
    /\ dashboard = "none"
    /\ tool_calls = <<>>
    /\ memory_db = NoMemory
    /\ api = ApiIdle
    /\ validator \in [plan : ValidatorPlans, called : {FALSE},
                      valid : {FALSE}, errors : {{}}, warnings : {{}}]
PlanNext == Validate
SpecPlan == PlanInit /\ [][PlanNext]_vars

\* a RiskEngine of any mode, evaluating a growing plan and asked about risks
RiskInit ==
    /\ BusIdle /\ PlOnly /\ SmInit /\ VfIdle /\ ExInit /\ RmIdle
    /\ validator = NoValidator
    /\ dashboard = "none"
    /\ tool_calls = <<>>
    /\ memory_db = NoMemory
    /\ api = ApiIdle
    /\ engine \in [mode : Modes, steps : {<<>>}, risk : {evaluate_plan(<<>>)},
                    asked : {NoRisk}, confirm : {FALSE}]
RiskNext ==
    \/ \E tool_name \in RiskTools : AddStep(tool_name)
    \/ \E risk \in RiskScores : RequiresConfirmation(risk)
SpecRisk == RiskInit /\ [][RiskNext]_vars

StateInit == BusIdle /\ PlIdle /\ SmInit /\ VfIdle /\ ExInit /\ RmIdle
StateNext == \E t \in TaskIds : RegisterTask(t) \/ MarkTaskComplete(t)
SpecState == StateInit /\ [][StateNext]_vars

VerifyInit == BusIdle /\ PlIdle /\ SmInit /\ ExInit /\ RmIdle /\ vf_trace \in VfInputs /\ vf_result = NoResult
VerifyNext == Verify
SpecVerify == VerifyInit /\ [][VerifyNext]_vars

ExecInit == BusIdle /\ PlIdle /\ SmInit /\ VfIdle /\ ExInit /\ RmIdle
ExecNext ==
    \/ \E payload \in ExecPayloads : ExecuteRequest(payload)
    \/ ExecSkip
    \/ \E success \in BOOLEAN : ExecStep(success)
    \/ ExecFinish
SpecExec == ExecInit /\ [][ExecNext]_vars

ReminderInit == BusIdle /\ PlIdle /\ SmInit /\ VfIdle /\ ExInit /\ RmInit
ReminderNext ==
    \/ Advance
    \/ TickLoad
    \/ TickSkip
    \/ \E results \in [Channels -> BOOLEAN] : TickNotify(results)
    \/ \E write \in {"ok", "not_opened", "truncated"} : TickFlip(write)
    \/ TickWritten
    \/ GetReminders
    \/ TickEnd
    \/ Restart
    \/ ReminderSetRead
    \/ \E t \in Times : ReminderSetWrite(t)
SpecReminder == ReminderInit /\ [][ReminderNext]_vars

\* the monitor's loop and a stop() that can come at any moment; the event
\* loop keeps running the monitor's coroutine
MonitorStep ==
    \/ TickLoad
    \/ TickSkip
    \/ \E results \in [Channels -> BOOLEAN] : TickNotify(results)
    \/ \E write \in {"ok", "not_opened", "truncated"} : TickFlip(write)
    \/ TickWritten
    \/ TickEnd
    \/ LoopExit
MonitorNext ==
    \/ MonitorStep
    \/ Advance
    \/ Stop
SpecMonitor == ReminderInit /\ [][MonitorNext]_vars /\ WF_vars(MonitorStep)

\* the messages the clients publish: requests without a correlation id, and
\* responses that name a request made before, or none
Correlates(type, corr) ==
    corr # 0 => type = "plan_response" /\ messages[corr].message_type = "plan_request"

\* the pipeline from submission to verification.  The planner's plans carry
\* no dependencies, so the executor never passes over a step here.
Init == BusIdle /\ PlIdle /\ SmInit /\ VfIdle /\ ExInit /\ RmIdle
Next ==
    \/ \E surface \in Surfaces, t \in TaskIds, payload \in PlanPayloads :
          SubmitTask(surface, t, payload)
    \/ \E t \in TaskIds : ChatRun(t)
    \/ \E backend \in BackendResults, fallback \in FallbackPlans :
          PlannerHandle(backend, fallback)
    \/ ReceiveResponse
    \/ \E answer \in Answers : Confirm(answer)
    \/ PublishExecute
    \/ \E success \in BOOLEAN : ExecStep(success)
    \/ ExecFinish
Spec == Init /\ [][Next]_vars

BusSpecInit == SmInit /\ VfIdle /\ ExInit /\ RmIdle /\ PlIdle /\ BusInit
BusNext ==
    \/ \E c \in Callers, type \in MessageTypes, corr \in {0} \cup MsgIds :
          /\ Correlates(type, corr)
          /\ Publish(c, type, corr)
    \/ \E type \in MessageTypes, corr \in {0} \cup MsgIds :
          /\ Correlates(type, corr)
          /\ PublishNow(type, corr)
    \/ \E c \in Callers : RequestResponse(c)
    \/ \E c \in Callers, h \in HandlerIds,
          b \in {"return", "raise", "wait", "reply"} : RouteInvoke(c, h, b)
    \/ \E c \in Callers : HandlerResume(c)
    \/ \E c \in Callers : RouteEnd(c)
    \/ \E c \in Callers : RouteRaise(c)
    \/ \E c \in Callers : Timeout(c)
    \/ \E h \in HandlerIds : Subscribe("plan_request", h)
    \/ \E h \in HandlerIds : Unsubscribe("plan_request", h)
    \/ ClearHistory
    \/ Shutdown
SpecBus == BusSpecInit /\ [][BusNext]_vars

\* a request and its replies on a bus where message objects may be published
\* more than once
StatusNext ==
    \/ \E c \in Callers : RequestResponse(c)
    \/ \E c \in Callers, h \in HandlerIds,
          b \in {"return", "raise", "wait", "reply"} : RouteInvoke(c, h, b)
    \/ \E c \in Callers : HandlerResume(c)
    \/ \E c \in Callers : RouteEnd(c)
    \/ \E c \in Callers : RouteRaise(c)
    \/ \E c \in Callers : Timeout(c)
    \/ \E h \in HandlerIds : Subscribe("plan_request", h)
    \/ ClearHistory
    \/ \E m \in MsgIds : PublishAgain(m)
SpecStatus == BusSpecInit /\ [][StatusNext]_vars

\* the history of a bus that is only published to and read
HistoryNext ==
    \/ \E e \in Envelopes : PublishFrom(e[1], e[2], e[3])
    \/ \E sender \in Senders \cup {None}, recipient \in Recipients \cup {None},
          type \in MessageTypes \cup {None}, limit \in Limits :
          GetHistory(sender, recipient, type, limit)
SpecHistory == BusSpecInit /\ [][HistoryNext]_vars

(***************************************************************************)
(* C10: a task id is in get_active_tasks() if and only if its trace status *)
(* is pending or running.                                                  *)
(***************************************************************************)
C10_ActiveIffNotTerminal ==
    \A t \in TaskIds :
        (t \in get_active_tasks) <=>
            (execution_states[t].status \in {"pending", "running"})

(***************************************************************************)
(* C7: the verifier returns verified = true exactly when at least one step *)
(* was executed, every executed step reported success and the trace has no *)
(* errors; otherwise the issues name the step id of every trace error, and *)
(* the recommendations are those for errors and for an empty trace.        *)
(***************************************************************************)
C7_VerdictRule ==
    vf_result.called =>
        /\ vf_result.verified <=>
              /\ vf_trace.steps_executed # <<>>
              /\ \A i \in 1..Len(vf_trace.steps_executed) :
                    /\ "success" \in DOMAIN vf_trace.steps_executed[i]
                    /\ vf_trace.steps_executed[i].success
              /\ vf_trace.errors = <<>>
        /\ \A i \in 1..Len(vf_trace.errors) :
              \E j \in 1..Len(vf_result.issues) :
                 /\ vf_result.issues[j].kind = "step"
                 /\ vf_result.issues[j].step_id = vf_trace.errors[i].step_id
        /\ ("Review errors and retry failed steps"
               \in Range(vf_result.recommendations)) <=> (vf_trace.errors # <<>>)
        /\ ("Review the execution plan for issues"
               \in Range(vf_result.recommendations))
             <=> (vf_trace.steps_executed = <<>>)

\* a rejected trace whose only defect is a step without success, with no error
C7_Witness ==
    /\ vf_result.called
    /\ ~vf_result.verified
    /\ vf_trace.steps_executed # <<>>
    /\ vf_trace.errors = <<>>

(***************************************************************************)
(* C5: while an EXECUTE_REQUEST is handled, a step is dispatched to its    *)
(* tool only if every id in its depends_on is an earlier step of the       *)
(* request that was executed and reported success.                         *)
(***************************************************************************)
C5_DispatchOnlyAfterSuccess ==
    ex.pc = "steps" =>
        \A n \in 1..Len(tool_invocations) :
            LET k == tool_invocations[n].step_id
            IN \A d \in ex.plan[k].depends_on :
                  d < k /\ ex.results[d] = "ok"

(***************************************************************************)
(* C6: for a plan whose steps all have an empty depends_on, the results    *)
(* sent to the verifier have exactly one entry per step, every failed step *)
(* is an error on the trace, the trace status is completed, and the        *)
(* verifier answers verified = false when a step failed.                   *)
(***************************************************************************)
IndependentPlan(plan) == \A k \in 1..Len(plan) : plan[k].depends_on = {}

C6_ContinuesPastFailure ==
    \A j \in 1..Len(published) :
        (/\ published[j].type = "VERIFY_REQUEST"
         /\ IndependentPlan(published[published[j].correlation_id].payload.plan))
        =>
        LET plan == published[published[j].correlation_id].payload.plan
            results == published[j].payload.results
            trace == published[j].payload.execution_trace
        IN /\ \A k \in StepIds : (results[k] # "none") <=> (k \in 1..Len(plan))
           /\ \A k \in StepIds :
                 results[k] = "fail" =>
                    \E e \in 1..Len(trace.errors) : trace.errors[e].step_id = k
           /\ trace.status = "completed"
           /\ j < Len(published)
           /\ published[j + 1].type = "VERIFY_RESPONSE"
           /\ (\E k \in StepIds : results[k] = "fail")
                 => ~published[j + 1].payload.verified

\* a first step that failed and an independent second step that still ran
C6_Witness ==
    \E j \in 1..Len(published) :
        /\ published[j].type = "VERIFY_RESPONSE"
        /\ IndependentPlan(published[1].payload.plan)
        /\ Len(published[1].payload.plan) >= 2
        /\ published[j].payload.results[1] = "fail"
        /\ published[j].payload.results[2] = "ok"
        /\ ~published[j].payload.verified

(***************************************************************************)
(* C4 as stated: after a tick, every reminder that was active and due when *)
(* the tick loaded it is inactive in reminders.json and in the fired set.  *)
(***************************************************************************)
TickDone == mon.pc = "sleep" /\ mon.ticks = 1

FileInactive(r) ==
    /\ rem_file.ok
    /\ rem_file.list[r].present
    /\ ~rem_file.list[r].is_active

RequestEnded(c) == callers[c].kind = "request" /\ callers[c].pc = "done"

C2_EndsInOneOfThreeWays ==
    \A c \in Callers :
        RequestEnded(c) =>
            /\ callers[c].outcome \in {"response", "timeout", "shutdown"}
            /\ callers[c].outcome = "response" =>
                  messages[callers[c].result].correlation_id = callers[c].msg

(***************************************************************************)
(* C3: a request_response call made while no handler is subscribed to      *)
(* PLAN_REQUEST ends in a timeout, not in a returned message, and leaves   *)
(* no waiter behind for a late response to satisfy.                        *)
(***************************************************************************)
C3_NoHandlerTimesOut ==
    \A c \in Callers :
        (RequestEnded(c) /\ callers[c].nosub) =>
            /\ callers[c].outcome = "timeout"
            /\ callers[c].msg \notin pending_responses


(***************************************************************************)
(* C1: on every submission surface, EXECUTE_REQUEST for a plan whose risk  *)
(* requires confirmation is published only after the user confirmed; and  *)
(* without a confirmation no step of such a plan is dispatched to a tool.  *)
(***************************************************************************)
NeedsConfirmation(steps) == requires_confirmation(Mode, evaluate_plan(steps))

C1_ConfirmedBeforeExecute ==
    /\ \A i \in DOMAIN published :
          (/\ published[i].type = "EXECUTE_REQUEST"
           /\ NeedsConfirmation(published[i].payload.plan)) => pl.confirmed
    /\ (tool_invocations # <<>> /\ NeedsConfirmation(pl.plan)) => pl.confirmed

(***************************************************************************)
(* C8: the planner never publishes a PLAN_RESPONSE with a plan the         *)
(* validator rejects, and no EXECUTE_REQUEST is published for such a plan. *)
(***************************************************************************)
C8_NoInvalidPlanPublished ==
    \A i \in DOMAIN published :
        published[i].type \in {"PLAN_RESPONSE", "EXECUTE_REQUEST"} =>
            validate(published[i].payload.plan)

(***************************************************************************)
(* C9: once the planner has handled a PLAN_REQUEST, exactly one reply to   *)
(* it is published: a PLAN_RESPONSE or a REQUEST_FAILED, addressed to the  *)
(* request's sender, with the request's id as correlation_id.              *)
(***************************************************************************)
Replies ==
    {i \in DOMAIN published :
        /\ published[i].type \in {"PLAN_RESPONSE", "REQUEST_FAILED"}
        /\ published[i].correlation_id = 1
        /\ published[i].recipient = published[1].sender}

C9_ExactlyOneReply ==
    (pl.surface # "chat" /\ pl.pc \notin {"idle", "planning"}) =>
        Cardinality(Replies) = 1

(***************************************************************************)
(* C11: per task, the planner's PLAN_RESPONSE is published before the      *)
(* EXECUTE_REQUEST, which is published before the verifier's               *)
(* VERIFY_RESPONSE; a VERIFY_RESPONSE always has an earlier                *)
(* EXECUTE_REQUEST for its task, and an EXECUTE_REQUEST an earlier         *)
(* PLAN_RESPONSE.                                                          *)
(***************************************************************************)
Of(type, t) ==
    {i \in DOMAIN published :
        published[i].type = type /\ published[i].payload.task_id = t}

C11_PipelineOrder ==
    \A t \in TaskIds :
        /\ \A i \in Of("PLAN_RESPONSE", t), j \in Of("EXECUTE_REQUEST", t) : i < j
        /\ \A j \in Of("EXECUTE_REQUEST", t), k \in Of("VERIFY_RESPONSE", t) : j < k
        /\ \A j \in Of("EXECUTE_REQUEST", t) :
              \E i \in Of("PLAN_RESPONSE", t) : i < j
        /\ \A k \in Of("VERIFY_RESPONSE", t) :
              \E j \in Of("EXECUTE_REQUEST", t) : j < k

\* a task whose three messages are all in the history
C11_Witness ==
    \E t \in TaskIds :
        /\ Of("PLAN_RESPONSE", t) # {}
        /\ Of("EXECUTE_REQUEST", t) # {}
        /\ Of("VERIFY_RESPONSE", t) # {}

(***************************************************************************)
(* C12: per handler, messages are delivered in publish order: a handler is *)
(* never invoked with a message after it was invoked with one published    *)
(* later.  Message ids grow in publish order.                              *)
(***************************************************************************)
C12_DeliveredInPublishOrder ==
    \A h \in HandlerIds :
        \A i, j \in DOMAIN delivered[h] :
            i < j => delivered[h][i] <= delivered[h][j]

(***************************************************************************)
(* C13: publish never raises to its caller, whatever subscribe and         *)
(* unsubscribe calls run meanwhile; the only errors a bus call ends with   *)
(* are the timeout of request_response and the shutdown failure.           *)
(***************************************************************************)
C13_PublishNeverRaises ==
    \A c \in Callers :
        callers[c].pc = "done" =>
            IF callers[c].kind = "publish"
            THEN callers[c].outcome = "returned"
            ELSE callers[c].outcome \in {"response", "timeout", "shutdown"}

(***************************************************************************)
(* C14: when a handler raised while a message was routed, the routing of   *)
(* that message still ends with every handler subscribed to its type       *)
(* invoked for it, and with the waiter keyed by its correlation_id         *)
(* satisfied.                                                              *)
(***************************************************************************)
RoutingEnds(c) ==
    /\ callers[c].pc = "run"
    /\ Len(callers[c].stack) = 1
    /\ callers'[c].pc # "run"

C14_RaiseAbortsNothing ==
    [][\A c \in Callers :
          (RoutingEnds(c) /\ Top(callers[c].stack).raised) =>
              LET fr == Top(callers[c].stack)
                  corr == messages[fr.msg].correlation_id
              IN /\ \A h \in FrameSet(fr) : fr.msg \in Range(delivered[h])
                 /\ (Resolves(corr) /\ SetsResult(corr)) =>
                        futures'[corr].state = "result"]_vars

(***************************************************************************)
(* C15: each correlation id satisfies at most one waiter: a future's       *)
(* result is a message carrying the request's id as correlation_id, at     *)
(* most one message per correlation id is marked COMPLETED, and once the   *)
(* result is set no later message with that correlation_id changes it or   *)
(* the caller's result.                                                    *)
(***************************************************************************)
ResolvedOnce ==
    \A k \in MsgIds :
        /\ Cardinality({m \in MsgIds : /\ messages[m].status = "completed"
                                       /\ messages[m].correlation_id = k}) <= 1
        /\ futures[k].state = "result" =>
              messages[futures[k].result].correlation_id = k

ResultKept ==
    /\ \A k \in MsgIds :
          futures[k].state = "result" => futures'[k] = futures[k]
    /\ \A c \in Callers :
          callers[c].outcome = "response" => callers'[c] = callers[c]

C15_OneWaiterPerCorrelation == []ResolvedOnce /\ [][ResultKept]_vars

\* a caller got its response, and a later message with the same
\* correlation_id was routed and left as it was published
C15_Witness ==
    \E c \in Callers, m \in MsgIds :
        /\ callers[c].outcome = "response"
        /\ futures[callers[c].msg].result = callers[c].result
        /\ m > callers[c].result
        /\ messages[m].correlation_id = callers[c].msg
        /\ messages[m].status = "sent"

(***************************************************************************)
(* The history ring (bus.py:45-66, 161-193)                                *)
(***************************************************************************)
\* the number of messages published so far; they carry the ids 1..NumPublished
NumPublished == NextId - 1

\* C16: after any sequence of publish calls the history holds at most
\* max_history messages, and they are exactly the most recently published
\* ones in publish order; every message among them that matches the filter is
\* returned by a get_history whose limit is at least the history's length
C16_HistoryKeepsNewest ==
    LET n == NumPublished
        k == IF n < MaxHistory THEN n ELSE MaxHistory
    IN /\ Len(message_history) <= MaxHistory
       /\ message_history = [i \in 1..k |-> n - k + i]
       /\ (got.called /\ got.limit >= Len(got.before)) =>
              \A i \in DOMAIN got.before :
                  Matches(got.before[i], got.sender, got.recipient,
                          got.message_type)
                      => got.before[i] \in Range(got.result)

\* a message was evicted, and a filtered get_history with a large enough limit
\* ran on the full history and returned some of it
C16_Witness ==
    /\ NumPublished > MaxHistory
    /\ got.called
    /\ got.before = message_history
    /\ got.limit >= Len(got.before)
    /\ got.sender # None
    /\ got.result # <<>>
    /\ Len(got.result) < Len(got.before)

\* the messages of a history that pass the filter of the last call, in the
\* history's order
Matching(hist) ==
    SelectSeq(hist, LAMBDA m : Matches(m, got.sender, got.recipient,
                                       got.message_type))

\* the result holds only matching messages of the history the call read
OnlyMatching ==
    \A i \in DOMAIN got.result :
        /\ got.result[i] \in Range(got.before)
        /\ Matches(got.result[i], got.sender, got.recipient, got.message_type)

\* a get_history call leaves the history as it was
HistoryKept == (got' # got) => message_history' = message_history

ResultNewestFirst ==
    got.called =>
        /\ \A i, j \in DOMAIN got.result :
               i < j => got.result[i] > got.result[j]
        /\ OnlyMatching

\* C17 as stated: get_history returns the matching messages newest first (a
\* later published message appears earlier in the result), only matching
\* ones, and leaves the history unchanged
C17_NewestFirst == []ResultNewestFirst /\ [][HistoryKept]_vars

\* C17 as the code has it: get_history returns the newest matching messages,
\* at most `limit` of them (one when the limit is below one), in publish
\* order, oldest first; only matching ones; the history is unchanged
ResultInPublishOrder ==
    got.called =>
        LET ms == Matching(got.before)
            cap == IF got.limit < 1 THEN 1 ELSE got.limit
            k == IF Len(ms) < cap THEN Len(ms) ELSE cap
        IN /\ got.result = SubSeq(ms, Len(ms) - k + 1, Len(ms))
           /\ \A i, j \in DOMAIN got.result :
                  i < j => got.result[i] < got.result[j]
           /\ OnlyMatching

C17_OldestFirst == []ResultInPublishOrder /\ [][HistoryKept]_vars

\* a filtered call on a history that has evicted a message returned two
\* messages
C17_Witness ==
    /\ got.called
    /\ Len(got.result) = 2
    /\ got.message_type # None
    /\ got.before = message_history
    /\ NumPublished > MaxHistory

(***************************************************************************)
(* Subscriptions (bus.py:68-92)                                            *)
(***************************************************************************)
\* how often handler h was invoked with message m
Invocations(h, m) ==
    Cardinality({i \in DOMAIN delivered[h] : delivered[h][i] = m})

\* no handler is invoked twice with one message
InvokedAtMostOnce ==
    \A h \in HandlerIds : \A m \in MsgIds : Invocations(h, m) <= 1

\* when the routing of a published message ends, every handler that was
\* subscribed to its type when the routing began and still is has been
\* invoked with it exactly once
EachInvokedOnce ==
    \A c \in Callers :
        RoutingEnds(c) =>
            LET fr == Top(callers[c].stack)
            IN \A h \in fr.start \cap
                        subscribers[messages[fr.msg].message_type] :
                   Invocations(h, fr.msg) = 1

\* a handler that is not subscribed to a type when a message of the type is
\* routed, and does not subscribe meanwhile, is not invoked with it
OnlySubscribersInvoked ==
    \A c \in Callers :
        \A h \in HandlerIds :
            (/\ Len(callers[c].stack) > 0
             /\ Len(delivered'[h]) > Len(delivered[h])
             /\ running = c)
                => h \in FrameSet(Top(callers[c].stack))

\* C18: a handler subscribed to a type (however often) is invoked exactly once
\* per message of the type, several handlers of a type are each invoked once,
\* and a handler that was unsubscribed is not invoked at all
C18_OncePerSubscribedHandler ==
    /\ []InvokedAtMostOnce
    /\ [][EachInvokedOnce]_vars
    /\ [][OnlySubscribersInvoked]_vars

(***************************************************************************)
(* Shutdown (bus.py:203-213)                                               *)
(***************************************************************************)
\* the step is a shutdown of a bus that was open
ShutsDown == closed = 0 /\ closed' # 0

\* the caller is in request_response and its future is not done
AwaitsResponse(c) ==
    /\ callers[c].kind = "request"
    /\ callers[c].pc \in {"run", "waiting"}
    /\ futures[callers[c].msg].state = "pending"

\* shutdown leaves no subscription and no waiter, and every caller that was
\* waiting for a response has its future failed with the shutdown error
ShutdownFailsWaiters ==
    ShutsDown =>
        /\ \A T \in MessageTypes : subscribers'[T] = {}
        /\ pending_responses' = {}
        /\ \A c \in Callers :
               AwaitsResponse(c) =>
                   futures'[callers[c].msg].state = "exception"

\* no handler is invoked with a message published after the shutdown
NoneInvokedAfterShutdown ==
    closed # 0 =>
        \A h \in HandlerIds :
            \A m \in Range(delivered[h]) : m < closed

\* C19: shutdown clears all subscriptions and fails every outstanding waiter
\* with a shutdown error: afterwards no handler is invoked for later
\* messages, the pending map is empty, and every caller that was waiting
\* observes the shutdown error instead of waiting until its deadline
C19_ShutdownFailsEveryWaiter ==
    /\ []NoneInvokedAfterShutdown
    /\ [][ShutdownFailsWaiters]_vars

(***************************************************************************)
(* Message status (bus.py:52-54, 118-124, 154-159)                         *)
(***************************************************************************)
\* messages.py:48-57
Terminal == {"completed", "failed", "timeout", "cancelled"}

\* C20: a message whose status is COMPLETED, FAILED, TIMEOUT or CANCELLED
\* never changes status again, also when the same message object is published
\* a second time or its request times out after it was marked
C20_TerminalStatusKept ==
    [][\A m \in MsgIds :
           messages[m].status \in Terminal
               => messages'[m].status = messages[m].status]_vars

(***************************************************************************)
(* PlanValidator (planning.py:40-117)                                      *)
(***************************************************************************)
\* some step depends on an id that is not the id of a step of the plan
HasUndefinedDependency(steps) ==
    \E i \in DOMAIN steps : ~(steps[i].depends_on \subseteq DOMAIN steps)

\* every dependency of every step is a step listed earlier in the plan
DependsOnEarlierOnly(steps) ==
    \A i \in DOMAIN steps : \A d \in steps[i].depends_on : d \in 1..(i - 1)

\* C21: validate returns false for every plan without steps, with a
\* dependency cycle (a self-dependency included; the error is then 'Plan has
\* circular step dependencies') or with a depends_on id that is no step of the
\* plan, and true for every plan with at least one step whose dependencies
\* all are steps listed earlier
C21_ValidateVerdict ==
    validator.called =>
        LET steps == validator.plan
        IN /\ (Len(steps) = 0 \/ HasCycle(steps)
                 \/ HasUndefinedDependency(steps)) => ~validator.valid
           /\ (Len(steps) > 0 /\ HasCycle(steps))
                 => validator.errors = {Circular}
           /\ (Len(steps) > 0 /\ DependsOnEarlierOnly(steps))
                 => validator.valid

\* a plan whose only flaw is a cycle through two steps was validated
C21_Witness ==
    /\ validator.called
    /\ HasCycle(validator.plan)
    /\ ~HasUndefinedDependency(validator.plan)
    /\ \A i \in DOMAIN validator.plan : i \notin validator.plan[i].depends_on
    /\ ~validator.valid

\* some step stands at or before a step of the plan it depends on
ListedBeforeDependency(steps) ==
    \E i \in DOMAIN steps :
        \E d \in steps[i].depends_on \cap DOMAIN steps : i <= d

\* C22: the validator rejects every plan in which a step's position is less
\* than or equal to the position of one of its dependencies, also when the
\* dependency graph has no cycle and every dependency is a step of the plan
C22_RejectsMisorderedPlan ==
    (validator.called /\ ListedBeforeDependency(validator.plan))
        => ~validator.valid

(***************************************************************************)
(* RiskEngine (risk.py:51-148)                                             *)
(***************************************************************************)
\* the score the claim gives a step, in hundredths
StepScore(tool_name) ==
    IF tool_name = "shell_command" THEN 90
    ELSE IF tool_name \in {"file_write", "note_create", "reminder_set",
                           "app_launch"}
    THEN 50
    ELSE 10

LevelRank(level) == IF level = "high" THEN 3 ELSE IF level = "medium" THEN 2 ELSE 1

\* the plan's score is the largest of its steps' scores and its level follows
\* the thresholds 0.8 and 0.4
ScoreIsMaximum ==
    Len(engine.steps) > 0 =>
        /\ \A i \in DOMAIN engine.steps :
               StepScore(engine.steps[i].tool_name) <= engine.risk.score
        /\ \E i \in DOMAIN engine.steps :
               StepScore(engine.steps[i].tool_name) = engine.risk.score
        /\ engine.risk.level =
               (IF engine.risk.score >= 80 THEN "high"
                ELSE IF engine.risk.score >= 40 THEN "medium" ELSE "low")
        /\ (\E i \in DOMAIN engine.steps :
                engine.steps[i].tool_name = "shell_command")
               => engine.risk.level = "high"

\* a step added to the plan lowers neither its score nor its level
NeverLowered ==
    /\ engine'.risk.score >= engine.risk.score
    /\ LevelRank(engine'.risk.level) >= LevelRank(engine.risk.level)

\* C23: evaluate_plan gives a plan the maximum of its steps' scores
\* (shell_command 0.9; file_write, note_create, reminder_set, app_launch 0.5;
\* any other tool 0.1), level HIGH from 0.8, MEDIUM from 0.4, LOW below; a
\* plan with a shell_command step is HIGH, and adding a step never lowers the
\* score or the level
C23_PlanRiskIsMaximum == []ScoreIsMaximum /\ [][NeverLowered]_vars

\* a low-risk step was added after a shell_command step and the plan is
\* still HIGH with score 0.9
C23_Witness ==
    /\ Len(engine.steps) = 3
    /\ engine.steps[1].tool_name = "shell_command"
    /\ engine.steps[3].tool_name = "note_list"
    /\ engine.risk = [level |-> "high", score |-> 90]

\* C24: requires_confirmation is true in strict mode exactly when the level
\* is not LOW, in balanced mode and in any unrecognised mode exactly when the
\* level is HIGH, and in permissive mode exactly when the level is HIGH and
\* the score is greater than 0.95
C24_ConfirmationByMode ==
    engine.asked # NoRisk =>
        (engine.confirm <=>
            IF engine.mode = "strict" THEN engine.asked.level # "low"
            ELSE IF engine.mode = "permissive"
            THEN engine.asked.level = "high" /\ engine.asked.score > 95
            ELSE engine.asked.level = "high")

\* a permissive engine was asked about a HIGH risk of exactly 0.95 and did
\* not require confirmation
C24_Witness ==
    /\ engine.mode = "permissive"
    /\ engine.asked = [level |-> "high", score |-> 95]
    /\ ~engine.confirm

(***************************************************************************)
(* The monitor's in-session guard (reminder_monitor.py:88-119, 168-179)    *)
(***************************************************************************)
\* reminders.json shows the reminder active
FileActive(r) ==
    /\ rem_file.ok
    /\ rem_file.list[r].present
    /\ rem_file.list[r].is_active

\* C25: a reminder that this monitor process has fired is not notified again
\* by any later tick of the process, also when the write of reminders.json
\* failed and the file still shows is_active = true for it
C25_FiredSetSuppresses ==
    \A r \in RemIds :
        /\ notified[r] <= 1
        /\ notified[r] = 1 => r \in sent_notifications
        /\ (r \in sent_notifications /\ mon.pc = "notifying") => mon.idx # r

\* the write failed after reminder r fired; a later tick loaded r as active
\* from the file and has passed over it
C25_Witness ==
    \E r \in RemIds :
        /\ notified[r] = 1
        /\ r \in sent_notifications
        /\ FileActive(r)
        /\ mon.pc = "scan"
        /\ mon.idx > r
        /\ mon.list[r].is_active
        /\ IsDue(mon.list[r], mon.tick_now)

(***************************************************************************)
(* Channel failures and malformed times (reminder_monitor.py:101-166)      *)
(***************************************************************************)
\* the channels have returned and the loop goes on, in the same process
AfterNotification ==
    mon.pc = "notifying" /\ mon'.pc # "notifying" /\ restarts' = restarts

\* whatever the channels returned, the reminder is in the fired set and
\* flipped in the list that is written back, and the file shows the flip when
\* that write succeeds
FlipsWhateverChannels ==
    AfterNotification =>
        LET r == mon.idx
        IN /\ r \in sent_notifications'
           /\ ~mon'.list[r].is_active
           /\ notified'[r] = 1

\* the write that follows the flip, when it completes, leaves the reminder
\* inactive in reminders.json
WriteShowsFlip ==
    (mon.pc = "writing" /\ mon'.pc # "writing" /\ restarts' = restarts)
        => rem_file'.ok /\ ~rem_file'.list[mon.idx].is_active

\* a reminder whose scheduled_time does not parse is neither notified nor
\* fired nor flipped by the tick that loaded it
MalformedSkipped ==
    \A r \in RemIds :
        (mon.ticks = 1 /\ mon.list[r].present
           /\ mon.list[r].scheduled_time = BadTime)
            => /\ mon.list[r].is_active
               /\ r \notin sent_notifications
               /\ notified[r] = 0
               /\ r \notin mon.due

\* the reminders of the tick that are due are all processed
OthersProcessed ==
    (mon.pc = "sleep" /\ mon.ticks = 1) =>
        \A r \in mon.due : r \in sent_notifications /\ ~mon.list[r].is_active

\* C26: when every channel fails for a due reminder (or one succeeds and
\* another fails) the reminder is still flipped to is_active = false and
\* added to the fired set, and the process never notifies it again; a
\* reminder whose scheduled_time cannot be parsed is skipped without being
\* flipped, and the other reminders of the tick are still processed
C26_FlipDespiteChannelFailure ==
    /\ [](\A r \in RemIds : notified[r] <= 1)
    /\ []MalformedSkipped
    /\ []OthersProcessed
    /\ [][FlipsWhateverChannels]_vars
    /\ [][WriteShowsFlip]_vars

\* a tick passed over a malformed reminder, then fired a reminder for which
\* every channel failed; the file shows that one inactive
C26_Witness ==
    /\ mon.pc = "sleep"
    /\ mon.ticks = 1
    /\ mon.success_channels = {}
    /\ \E q, r \in RemIds :
          /\ q < r
          /\ mon.list[q].present
          /\ mon.list[q].scheduled_time = BadTime
          /\ mon.list[q].is_active
          /\ notified[r] = 1
          /\ r \in mon.due
          /\ rem_file.ok
          /\ rem_file.list[r].present
          /\ ~rem_file.list[r].is_active

(***************************************************************************)
(* Readers of reminders.json (reminder_monitor.py:168-179, main.py:59-66)  *)
(***************************************************************************)
\* C27: a reader of reminders.json that runs concurrently with the monitor's
\* write observes the complete list from before the write or the complete
\* list from after it, never an empty or partially written file
C27_ReaderSeesCompleteList == dashboard # "partial"

(***************************************************************************)
(* Stopping the monitor (reminder_monitor.py:43-70)                        *)
(***************************************************************************)
InTick == mon.pc \in {"scan", "notifying", "writing"}

\* once stop() was called no scan begins
NoScanAfterStop == ~mon.running => ~(mon.pc = "sleep" /\ mon'.pc = "scan")

\* a tick that ends after stop() was called ends the loop: no sleep follows
StopEndsLoopAfterScan ==
    (InTick /\ ~mon.running /\ mon'.pc \notin {"scan", "notifying", "writing"})
        => mon'.pc = "returned"

\* C28: after stop() on a running monitor no further scan begins and start()
\* eventually returns; the flag is checked after each iteration, so a stop()
\* issued during a scan ends the loop without another sleep and without
\* another scan
C28_StopEndsLoopWithoutSleep ==
    /\ [][NoScanAfterStop]_vars
    /\ [][StopEndsLoopAfterScan]_vars
    /\ (~mon.running ~> mon.pc = "returned")

\* the parts of C28 the loop does keep
StopsEventually ==
    /\ [][NoScanAfterStop]_vars
    /\ (~mon.running ~> mon.pc = "returned")

\* calls of the registered tools through validate_and_execute
ToolNext == \E tool \in RegisteredTools, run \in Runs : ToolCall(tool, run)
SpecTool == Init /\ [][ToolNext]_vars

\* the pipeline when the planner has no model to ask: every plan is a
\* rule-based plan
FallbackNext ==
    \/ \E surface \in Surfaces, t \in TaskIds, payload \in PlanPayloads :
          SubmitTask(surface, t, payload)
    \/ \E t \in TaskIds : ChatRun(t)
    \/ \E fallback \in FallbackPlans :
          PlannerHandle([kind |-> "none", steps |-> <<>>], fallback)
    \/ ReceiveResponse
    \/ \E answer \in Answers : Confirm(answer)
    \/ PublishExecute
    \/ \E success \in BOOLEAN : ExecStep(success)
    \/ ExecFinish
SpecFallback == Init /\ [][FallbackNext]_vars

(***************************************************************************)
(* Tool.validate_and_execute (tools/base.py:81-117)                        *)
(***************************************************************************)
\* C29: validate_and_execute never raises, for any registered tool: arguments
\* that fail the input schema yield success = false with an error beginning
\* 'Invalid input: ' and execute is not invoked; an exception raised by
\* execute, whatever its type, yields success = false with an error
\* beginning 'Execution failed: '
C29_NeverRaises ==
    \A i \in DOMAIN tool_calls :
        LET call == tool_calls[i]
        IN /\ ~call.output.raised
           /\ call.run = "invalid_args" =>
                 /\ ~call.output.success
                 /\ call.output.error = InvalidInput
                 /\ ~call.output.executed
           /\ call.run \in {"raises_value_error", "raises_other"} =>
                 /\ ~call.output.success
                 /\ call.output.error = ExecutionFailed

(***************************************************************************)
(* The tools of the rule-based plans (planner.py:195-569) and the registry *)
(***************************************************************************)
\* the executor answered a step with "Tool '...' not found"
ToolNotFound ==
    \E t \in TaskIds :
        /\ execution_states[t] # NoState
        /\ \E e \in 1..Len(execution_states[t].errors) :
              execution_states[t].errors[e].error = "not_found"

\* C30: every step of every rule-based fallback plan, the single-step generic
\* plan included, names a tool the surfaces register, so the executor never
\* answers such a plan with "Tool '...' not found"
C30_FallbackToolsRegistered ==
    /\ \A k \in 1..Len(pl.plan) : ToolFound(pl.plan[k])
    /\ ~ToolNotFound

\* tasks posted one after the other to the HTTP surface of one process
ApiNext ==
    \/ \E t \in TaskIds, backend \in BackendResults, fallback \in FallbackPlans :
          ApiRunTask(t, backend, fallback)
    \/ ApiPublishExecute
    \/ \E success \in BOOLEAN : ExecStep(success)
    \/ ApiExecFinish
    \/ ApiExecAgain
    \/ ApiReturn
SpecApi == Init /\ [][ApiNext]_vars

\* the session context and the memory table of one memory.db
MemoryNext ==
    \/ \E key \in ContextKeys, value \in ContextValues :
          SetSessionContext(key, value)
    \/ \E key \in ContextKeys : GetSessionContext(key)
    \/ GetAllSessionContext
    \/ Store
    \/ \E old \in 0..MaxMemories : PruneOldMemories(old)
SpecMemory == Init /\ [][MemoryNext]_vars

(***************************************************************************)
(* Internal exceptions of the executor (executor.py:95-114, 182-184)       *)
(***************************************************************************)
\* C31: whenever the executor hits an internal exception while handling a
\* request (an EXECUTE_REQUEST whose plan payload cannot be parsed), an
\* error message of type REQUEST_FAILED, RECOVERABLE_ERROR or CRITICAL_ERROR
\* is on the bus after the request, so the submitter receives some message
\* for the task
C31_ExceptionEmitsErrorMessage ==
    \A i \in 1..Len(published) :
        (/\ published[i].type = "EXECUTE_REQUEST"
         /\ published[i].payload.kind = "bad_plan")
        => \E j \in (i + 1)..Len(published) :
              published[j].type \in
                 {"REQUEST_FAILED", "RECOVERABLE_ERROR", "CRITICAL_ERROR"}

(***************************************************************************)
(* Session context (memory.py:170-201)                                     *)
(***************************************************************************)
\* what the calls so far say a read must return
LatestOf(key) ==
    IF memory_db.latest[key] = "unset" THEN "None" ELSE memory_db.latest[key]

LatestAll ==
    [key \in {k \in ContextKeys : memory_db.latest[k] # "unset"} |->
        memory_db.latest[key]]

\* a read returns the latest values
ReadsLatest ==
    /\ \A key \in ContextKeys :
          <<GetSessionContext(key)>>_vars =>
              memory_db'.got.value = LatestOf(key)
    /\ <<GetAllSessionContext>>_vars => memory_db'.got.value = LatestAll

\* store and prune_old_memories leave the session context alone
ContextKept ==
    memory_db'.memory # memory_db.memory =>
        memory_db'.session_context = memory_db.session_context

\* C32: after any sequence of set_session_context calls,
\* get_session_context(k) returns the value of the most recent set for k
\* (None for a key never set) and get_all_session_context() returns exactly
\* the keys that were set, each with its latest value; storing memory entries
\* and prune_old_memories leave the session context unchanged
C32_SessionContextLatest == [][ReadsLatest /\ ContextKept]_vars

\* both keys were set, "mode" more than once, entries were stored, and
\* get_all_session_context returned the two latest values
C32_Witness ==
    /\ memory_db.got.op = "all"
    /\ DOMAIN memory_db.got.value = ContextKeys
    /\ memory_db.got.value = LatestAll
    /\ "mode" \in memory_db.replaced
    /\ memory_db.memory > 0

(***************************************************************************)
(* The executor's handling of an EXECUTE_REQUEST (executor.py:116-178)     *)
(***************************************************************************)
\* the VERIFY_REQUESTs published for the EXECUTE_REQUEST with id i
VerifyRequestsOf(i) ==
    {j \in 1..Len(published) :
        /\ published[j].type = "VERIFY_REQUEST"
        /\ published[j].correlation_id = i}

\* an executor is handling the EXECUTE_REQUEST with id i, or is yet to
RequestInHand(i) ==
    \/ ex.pc = "steps" /\ ex.req = i
    \/ api.pending > 0 /\ api.req = i

\* the executor registers the task with trace status running, and the steps
\* are attempted in listed order
RunsInListedOrder ==
    ex.pc = "steps" =>
        /\ execution_states[ex.task].status = "running"
        /\ \A a, b \in 1..Len(execution_states[ex.task].steps_executed) :
              a < b => execution_states[ex.task].steps_executed[a].step_id
                          < execution_states[ex.task].steps_executed[b].step_id

\* C33: for every EXECUTE_REQUEST that carries a plan and a task_id, the
\* executor registers the task (trace status running), attempts the steps in
\* listed order, marks the task completed, and only then publishes exactly
\* one VERIFY_REQUEST, whose trace already has status completed
C33_OneVerifyRequestAfterCompletion ==
    /\ RunsInListedOrder
    /\ \A i \in 1..Len(published) :
          (published[i].type = "EXECUTE_REQUEST" /\ published[i].payload.kind = "ok")
          => /\ \A j \in VerifyRequestsOf(i) :
                   /\ published[j].payload.execution_trace.status = "completed"
                   /\ published[j].payload.task_id = published[i].payload.task_id
             /\ Cardinality(VerifyRequestsOf(i)) <= 1
             /\ ~RequestInHand(i) => Cardinality(VerifyRequestsOf(i)) = 1

(***************************************************************************)
(* Steps passed over for an unmet dependency (executor.py:122-154)         *)
(***************************************************************************)
\* step k has an entry on the trace
OnTrace(trace, k) ==
    \/ \E a \in 1..Len(trace.steps_executed) : trace.steps_executed[a].step_id = k
    \/ \E e \in 1..Len(trace.errors) : trace.errors[e].step_id = k

\* C34: a step the executor skips because a dependency is unmet at dispatch
\* time is recorded for the task, on the trace or in the results sent to the
\* verifier, and it is not dispatched later in the same request
C34_SkippedStepRecorded ==
    \A j \in 1..Len(published) :
        published[j].type = "VERIFY_REQUEST" =>
            LET plan == published[published[j].correlation_id].payload.plan
                results == published[j].payload.results
                trace == published[j].payload.execution_trace
            IN \A k \in 1..Len(plan) :
                  /\ results[k] # "none" \/ OnTrace(trace, k)
                  /\ results[k] = "none" =>
                        \A n \in 1..Len(tool_invocations) :
                           ~(/\ tool_invocations[n].task = published[j].payload.task_id
                             /\ tool_invocations[n].step_id = k)

(***************************************************************************)
(* The bus lock and nested publishes (bus.py:45-66, 94-116)                *)
(***************************************************************************)
\* a handler invoked by coroutine c publishes its reply in this step
NestedPublish(c) ==
    /\ Len(callers[c].stack) > 0
    /\ Top(callers[c].stack).f = "handler"
    /\ Len(callers'[c].stack) = Len(callers[c].stack) + 1

\* the nested message enters the history and its routing starts at once
NestedAppended ==
    \A c \in Callers :
        NestedPublish(c) =>
            LET fr == Top(callers'[c].stack)
            IN /\ fr.f = "route"
               /\ message_history'[Len(message_history')] = fr.msg
               /\ messages'[fr.msg].correlation_id = Top(callers[c].stack).msg

\* the call of c returns to its caller in this step
OuterReturns(c) == callers[c].pc = "run" /\ callers'[c].pc # "run"

\* the outer publish returns from its own routing only: no handler and no
\* nested routing is outstanding
NestedRoutedFirst ==
    \A c \in Callers :
        OuterReturns(c) =>
            /\ Len(callers[c].stack) = 1
            /\ Top(callers[c].stack).f = "route"
            /\ Top(callers[c].stack).msg = callers[c].msg

\* a handler that is to publish finds the lock free
HandlersFindLockFree ==
    \A c \in Callers :
        (Len(callers[c].stack) > 0 /\ Top(callers[c].stack).f = "handler")
            => lock = Unlocked

Dispatches(t, k) ==
    Cardinality({n \in 1..Len(tool_invocations) :
                    /\ tool_invocations[n].task = t
                    /\ tool_invocations[n].step_id = k})

\* C36: each step of a submitted task's plan is dispatched to its tool at
\* most once, however many tasks were submitted earlier through the HTTP
\* surface of the process: the agents created for an earlier request do not
\* also handle a later request's messages
C36_StepDispatchedOnce ==
    /\ \A t \in TaskIds : \A k \in StepIds : Dispatches(t, k) <= 1
    /\ \A i \in 1..Len(published) :
          Cardinality({j \in 1..Len(published) :
                          /\ published[j].correlation_id = i
                          /\ published[j].type \in
                                {"PLAN_RESPONSE", "VERIFY_REQUEST"}}) <= 1

(***************************************************************************)
(* reminder_set while a tick is in progress (reminders.py:101-120)         *)
(***************************************************************************)
\* the monitor's write-back keeps every reminder that is in the file
MonitorKeepsUnread ==
    (mon.pc = "writing" /\ mon'.pc # "writing") =>
        \A r \in RemIds :
            rem_file.list[r].present => rem_file'.list[r].present

\* reminder_set's write keeps every flip that is in the file
ToolKeepsFlips ==
    (rs.pc = "read" /\ rs'.pc = "idle" /\ rem_file.ok) =>
        \A r \in RemIds :
            (rem_file.list[r].present /\ ~rem_file.list[r].is_active) =>
                /\ rem_file'.list[r].present
                /\ ~rem_file'.list[r].is_active

\* C37: a reminder appended by reminder_set while a monitor tick is in
\* progress is still in the file after the tick: the monitor's write-back
\* never drops a reminder it did not read, and reminder_set's write never
\* reverts an is_active flip made by the monitor
C37_NoLostReminderUpdate == [][MonitorKeepsUnread /\ ToolKeepsFlips]_vars

(***************************************************************************)
(* What request_response returns (bus.py:118-124, 142-153)                 *)
(***************************************************************************)
\* C38: request_response never returns the request message itself: what it
\* returns is a different message, published after the request, whose
\* correlation_id is the request's id, also when handlers are subscribed to
\* the request's type and none of them replies
C38_ResponseIsNotTheRequest ==
    \A c \in Callers :
        callers[c].outcome = "response" =>
            /\ callers[c].result # callers[c].msg
            /\ callers[c].result > callers[c].msg
            /\ messages[callers[c].result].correlation_id = callers[c].msg

(***************************************************************************)
(* Verified plans (executor.py:122-146, verifier.py:147-170)               *)
(***************************************************************************)
\* C39: if the verifier reports verified = true for an executed plan that
\* the validator accepts, every step of the plan was dispatched and has a
\* successful result in the results map; a plan in which the executor
\* skipped a step is not reported as verified
C39_VerifiedMeansAllStepsRan ==
    \A j \in 2..Len(published) :
        (/\ published[j].type = "VERIFY_RESPONSE"
         /\ published[j].payload.verified
         /\ published[j - 1].type = "VERIFY_REQUEST")
        => LET plan == published[published[j - 1].correlation_id].payload.plan
               results == published[j].payload.results
           IN validate(plan) =>
                 \A k \in 1..Len(plan) :
                    /\ results[k] = "ok"
                    /\ \E n \in 1..Len(tool_invocations) :
                          tool_invocations[n].step_id = k

(***************************************************************************)
(* The pipeline behind publish(EXECUTE_REQUEST) (cli.py:231-250)           *)
(***************************************************************************)
\* publish(EXECUTE_REQUEST) has returned to the submitter
ExecutePublished == pl.pc = "submitted" /\ ex.pc = "idle"

\* C40: the pipeline behind an EXECUTE_REQUEST runs inline: when
\* publish(EXECUTE_REQUEST) returns to the submitter, the VERIFY_REQUEST and
\* the VERIFY_RESPONSE for the task are in the bus history, so the first
\* poll of get_history(sender = verifier, type = VERIFY_RESPONSE) finds the
\* result
C40_PipelineRunsInline ==
    ExecutePublished =>
        LET history == poll_history(published)
        IN /\ Of("VERIFY_REQUEST", pl.task) # {}
           /\ Of("VERIFY_RESPONSE", pl.task) # {}
           /\ history # <<>>
           /\ history[Len(history)].payload.task_id = pl.task

\* the submitter's publish has returned after the executor ran a step
C40_Witness ==
    /\ ExecutePublished
    /\ tool_invocations # <<>>
    /\ Len(poll_history(published)) = 1

====
